---- MODULE Spec2Model ----
(***************************************************************************)
(* Frame acquisition and orchestration pipeline of IT-Robotail/recognition *)
(*                                                                         *)
(* Spec       concurrent mode (src/main.py): main, one camera_worker       *)
(*            thread per configured camera, one db_writer thread, the      *)
(*            queue dbq and the stop_event between them.                   *)
(* SpecCadence  the measured tick and the wait that follows it, with time   *)
(*            (src/main.py and src/recognition/main.py).                   *)
(* SpecFetch  the acquisition functions (src/camera_fetcher.py and         *)
(*            src/vlc_fetcher.py): protocol selector, HTTP snapshot        *)
(*            client, RTSP attempt loop.                                   *)
(* SpecPlayer one RTSP attempt: the embedded libVLC player of              *)
(*            _vlc_take_snapshot_to_file.                                  *)
(*                                                                         *)
(* Durations the code measures (elapsed, now - last_flush, the time a join *)
(* has waited) are inputs of the environment, in whole seconds.            *)
(***************************************************************************)
EXTENDS Integers, Sequences, FiniteSets, TLC

VARIABLES
    \* ---- configuration (load_config) ----
    fetcher,      \* which module's fetch_camera_image the call site reaches
    cameras,      \* cfg["cameras"] as the list of ips, in file order
    interval,     \* settings["interval_sec"]
    \* ---- environment ----
    clock,        \* time of the latest tick start (every tick starts at a later time)
    \* ---- main ----
    mpc,          \* position of main
    spawned,      \* number of camera_worker threads started so far
    \* ---- shared ----
    stop_event,   \* threading.Event
    dbq,          \* queue.Queue(), unbounded FIFO
    \* ---- camera_worker threads, indexed by position in cameras ----
    wpc,          \* position of each worker
    wts,          \* t0 / ts of the tick in progress
    wimg,         \* result of fetch_camera_image in this tick
    wres,         \* result list of recognize_on_image in this tick
    wk,           \* index into known of the next sighting_upsert to put
    \* ---- db_writer thread ----
    dpc,          \* position of the writer
    batch_last,   \* pending last_seen rows
    upserted,     \* number of db_upsert_sighting_bytes calls made
    flushed,      \* number of rows handed to db_update_last_seen
    enqueued,     \* history: number of dbq.put calls made by all workers
    putAfterStop, \* history: some dbq.put happened after stop_event.set()
    \* ---- cadence of one poller (SpecCadence) ----
    cmode,        \* "concurrent" (main.py) or "sequential" (recognition/main.py)
    cpc,          \* "tick" or "wait"
    cnow,         \* time.time(), seconds
    ct0,          \* t0 of the tick
    celapsed,     \* elapsed
    cleft,        \* left / sleep_left
    cdeadline,    \* time at which the wait or sleep is over
    \* ---- acquisition call (SpecFetch) ----
    fport,        \* port argument
    fenv,         \* what the network / decoder will answer
    fpc,          \* position inside fetch_camera_image
    fstrategy,    \* branch taken by the port test
    fattempt,     \* RTSP attempt counter i
    fio,          \* number of I/O operations issued (requests, players)
    flast_err,    \* last_err
    fret,         \* returned pair, or the escaped exception
    furl,         \* URL of the HTTP request issued, if any
    ftext,        \* part of the response body quoted in the returned message
    fhist,        \* the RTSP attempts made so far, in trial order
    \* ---- one call of _vlc_take_snapshot_to_file (SpecPlayer) ----
    ppc,          \* position inside the function
    pt,           \* time.time() - start, in polling intervals
    pst,          \* state last returned by player.get_state()
    pframe,       \* a frame size with w and h non-zero was seen
    pend,         \* why the polling loop was left
    psnaps,       \* number of player.video_take_snapshot calls
    pstops,       \* number of player.stop() calls
    pinstances,   \* number of vlc.Instance objects this call created
    pcreated,     \* number of players this call created
    psnaplog,     \* the snapshot requests made: pause before it, rc, file size
    \* ---- db_writer with time and its storage calls (SpecWriter) ----
    dnow,         \* time.time(), seconds
    dlast_flush,  \* last_flush
    dlog,         \* history: the storage calls made, in call order
    dgot,         \* history: the events dbq.get returned, in order
    dputs,        \* history: number of events each camera has put
    \* ---- tick starts under both schedulings (SpecSchedule) ----
    sdur,         \* duration of a tick of each camera, tenths of a second
    snext,        \* identity of the next object make_session_no_retries returns
    kpc,          \* concurrent mode: position of each camera_worker
    know,         \* concurrent mode: time.time() as each worker sees it
    kstart,       \* concurrent mode: start times of each camera's ticks
    ksess,        \* concurrent mode: sess of each worker
    kused,        \* concurrent mode: sessions passed to fetch, per camera
    qpc,          \* sequential mode: position of the loop
    qpos,         \* sequential mode: index in ips of the camera polled next
    qnow,         \* sequential mode: time.time()
    qt0,          \* sequential mode: t0 of the cycle
    qstart,       \* sequential mode: start times of each camera's ticks
    qsess,        \* sequential mode: sess
    qused,        \* sequential mode: sessions passed to fetch, per camera
    pret,         \* returned pair (ok, msg), or the escaped exception
    \* ---- the storage tables and what was enqueued for them (Spec) ----
    db,           \* tables last_seen and sightings: timestamp stored per name
    newest,       \* history: greatest timestamp enqueued per table and name
    \* ---- one call of load_config (SpecConfig) ----
    lpc,          \* position inside load_config
    lhttps,       \* settings.https after bool(...)
    lraw,         \* the "port" entry of each camera as the file gives it
    lcams,        \* cam["port"] of the cameras normalised so far
    lret,         \* how the call ended
    \* ---- the loop of the sequential main (SpecSequential) ----
    rpc,          \* position inside main
    rpos,         \* index in ips of the camera of the for loop
    rts,          \* ts of the cycle, as the number of the cycle
    rrows,        \* last_rows
    rlog          \* history: polls, pacing sleeps, storage writes and the close

vars == <<fetcher, cameras, interval, clock, mpc, spawned,
          stop_event, dbq, wpc, wts, wimg, wres, wk, dpc, batch_last, upserted, flushed, enqueued,
          putAfterStop, cmode, cpc, cnow, ct0, celapsed, cleft, cdeadline,
          fport, fenv, fpc, fstrategy, fattempt, fio, flast_err, fret,
          furl, ftext, fhist, ppc, pt, pst, pframe, pend, psnaps, pstops, pinstances,
          pcreated, psnaplog, pret, dnow, dlast_flush, dlog, dgot, dputs,
          sdur, snext, kpc, know, kstart, ksess, kused,
          qpc, qpos, qnow, qt0, qstart, qsess, qused,
          db, newest, lpc, lhttps, lraw, lcams, lret,
          rpc, rpos, rts, rrows, rlog>>

mainVars == <<mpc, spawned>>
sharedVars == <<stop_event, dbq, enqueued, putAfterStop>>
workerVars == <<wpc, wts, wimg, wres, wk>>
writerVars == <<dpc, batch_last, upserted, flushed>>
configVars == <<fetcher, cameras, interval>>
cadenceVars == <<cmode, cpc, cnow, ct0, celapsed, cleft, cdeadline>>
fetchVars == <<fport, fenv, fpc, fstrategy, fattempt, fio, flast_err, fret,
               furl, ftext, fhist>>
playerVars == <<ppc, pt, pst, pframe, pend, psnaps, pstops, pinstances, pcreated,
                psnaplog, pret>>
writerLogVars == <<dnow, dlast_flush, dlog, dgot, dputs>>
scheduleVars == <<sdur, snext, kpc, know, kstart, ksess, kused,
                  qpc, qpos, qnow, qt0, qstart, qsess, qused>>
storageVars == <<db, newest>>
loadVars == <<lpc, lhttps, lraw, lcams, lret>>
seqVars == <<rpc, rpos, rts, rrows, rlog>>

(***************************************************************************)
(* Bounds and program constants                                            *)
(***************************************************************************)
MaxTicks == 2          \* ticks started by all workers together
MaxClock == 4          \* last value of time.time() in the cadence model
MaxInterval == 2       \* largest interval_sec the configuration supplies
MaxAttempts == 2       \* largest rtsp_attempts argument
MaxPollTime == 3       \* connect_timeout_s, in polling intervals
MaxWriterPuts == 2     \* events the cameras put while the writer runs
MaxWriterClock == 1    \* last value of time.time() in the writer model
MaxDur == 3            \* longest tick, in half seconds
MaxCycles == 3         \* ticks of one camera in the scheduling model
MaxCams == 2           \* camera entries in the file load_config reads
MaxSeqCycles == 2      \* cycles of the sequential loop

DEFAULT_INTERVAL == 10
BATCH_SIZE == 50
FLUSH_EVERY == 1
JOIN_TIMEOUT == 5
VLC_FETCHER_ATTEMPTS == 3
BODY_LIMIT == 200
SNAPSHOT_TRIES == 6
DEFAULT_GAP == 2          \* gap_between_requests, 0.2 s, in tenths of a second

Fetchers == {"camera_fetcher", "vlc_fetcher"}
IPs == {"10.0.0.1", "10.0.0.2"}
Names == {"ann", "bob"}

\* cfg["cameras"]: config.json is a hand-editable list, load_config keeps it
\* as it is (no de-duplication)
ConfigCameraLists ==
    { <<>>, <<"10.0.0.1">>, <<"10.0.0.1", "10.0.0.2">>, <<"10.0.0.1", "10.0.0.1">> }

\* ports = {c["ip"]: int(c.get("port", ...))}, aliases = {c["ip"]: c.get("alias", ip)}
ports == [ip \in IPs |-> IF ip = "10.0.0.1" THEN 80 ELSE 554]
aliases == [ip \in IPs |-> IF ip = "10.0.0.1" THEN "Cam 1" ELSE "Cam 2"]

Workers == 1..2
NoMsg == [kind |-> "", code |-> 0]
Msg(k, c) == [kind |-> k, code |-> c]

(***************************************************************************)
(* Acquisition functions                                                   *)
(***************************************************************************)
Ports == {80, 443, 554, 8080}
Statuses == {200, 204, 404}
HttpEnvs ==
    [transport : {"ok", "fail"}, status : Statuses,
     body : {"jpeg", "garbage", "empty"}, cvEmptyRaises : BOOLEAN,
     attempts : -1..MaxAttempts]

\* r.text of a response, as the number of whitespace characters it starts
\* with, of other characters that follow, and of whitespace characters it ends with
ResponseTexts ==
    { d \in [lead : 0..1, len : {0, 1, BODY_LIMIT, BODY_LIMIT + 1}, trail : 0..1] :
        d.trail = 1 => (d.lead = 1 /\ d.len \in {1, BODY_LIMIT + 1}) }

\* the characters of r.text: 0 is a whitespace character, i > 0 is the
\* (non-whitespace) character at position i of the body
ResponseText(d) ==
    [i \in 1..(d.lead + d.len + d.trail) |->
        IF i <= d.lead \/ i > d.lead + d.len THEN 0 ELSE i]

\* one call of fetch_camera_image: the answers of the network and the decoder
\* (HttpEnvs), settings["https"], r.text, and what an ffmpeg pipe to the same
\* stream would deliver
FetchEnvs ==
    [transport : {"ok", "fail"}, status : Statuses,
     body : {"jpeg", "garbage", "empty"}, cvEmptyRaises : BOOLEAN,
     attempts : -1..MaxAttempts,
     use_https : BOOLEAN, text : ResponseTexts, pipe_ok : BOOLEAN]

Returned(img, msg) == [img |-> img, msg |-> msg, raised |-> FALSE]
Raised(what) == [img |-> "none", msg |-> Msg(what, 0), raised |-> TRUE]
NoReturn == [img |-> "none", msg |-> NoMsg, raised |-> FALSE]

\* the port test at the head of fetch_camera_image
Selector(f, port) ==
    IF f = "camera_fetcher"
    THEN IF port = 80 THEN "http"
         ELSE IF port = 554 THEN "rtsp"
         ELSE "unsupported"
    ELSE IF port \in {80, 443} THEN "http" ELSE "rtsp"

\* cv2.imdecode: an image for a JPEG body, None for bytes that are no image;
\* on an empty buffer OpenCV 4 raises cv2.error, older builds return None
ImDecode(body, cvEmptyRaises) ==
    CASE body = "jpeg" -> "img"
      [] body = "garbage" -> "none"
      [] OTHER -> IF cvEmptyRaises THEN "raise" ELSE "none"

HttpTrySnapshot(f, port, env) ==
    IF env.transport = "fail" THEN Returned("none", Msg("http_request_failed", 0))
    ELSE IF env.status # 200 THEN Returned("none", Msg("http_status", env.status))
    ELSE IF f = "camera_fetcher" /\ env.body = "empty"
         THEN Returned("none", Msg("empty_response", 0))
    ELSE LET img == ImDecode(env.body, env.cvEmptyRaises) IN
         CASE img = "raise" -> Raised("cv2.error")
           [] img = "none" -> Returned("none", Msg("decode_failed", 0))
           [] OTHER -> Returned("img", Msg("ok_http", 0))

\* txt = (r.text or "").strip()
IsSpace(c) == c = 0
Strip(txt) ==
    LET ns == {i \in 1..Len(txt) : ~IsSpace(txt[i])} IN
    IF ns = {} THEN <<>>
    ELSE SubSeq(txt, CHOOSE i \in ns : \A j \in ns : i <= j,
                     CHOOSE i \in ns : \A j \in ns : j <= i)

\* if len(txt) > 200: txt = txt[:200] + "..."
Excerpt_NoLimit(txt) == txt
Excerpt(txt) == IF Len(txt) > BODY_LIMIT THEN SubSeq(txt, 1, BODY_LIMIT) ELSE txt

\* the part of the message after "HTTP {r.status_code}": the characters of
\* the body it quotes, and whether "..." follows them
NoText == [quoted |-> <<>>, ellipsis |-> FALSE]
StatusMessageText(text) ==
    [quoted |-> Excerpt(Strip(text)), ellipsis |-> Len(Strip(text)) > BODY_LIMIT]

\* camera_fetcher: url = f"http://{ip}:80/{path}"
\* vlc_fetcher:    scheme = "https" if (use_https or port == 443) else "http"
\*                 url = f"{scheme}://{ip}:{port}/{path}"
NoUrl == [scheme |-> "", port |-> 0]
HttpUrl(f, port, use_https) ==
    IF f = "camera_fetcher"
    THEN [scheme |-> "http", port |-> 80]
    ELSE [scheme |-> IF use_https \/ port = 443 THEN "https" ELSE "http",
          port |-> port]

\* for i in range(1, max(1, attempts) + 1)  /  attempts = 3
RtspAttempts_NoFloor(f, attempts) ==
    IF f = "camera_fetcher" THEN attempts ELSE VLC_FETCHER_ATTEMPTS
RtspAttempts(f, attempts) ==
    IF f = "camera_fetcher"
    THEN (IF attempts > 1 THEN attempts ELSE 1)
    ELSE VLC_FETCHER_ATTEMPTS

\* What the call in camera_worker (keywords auth=, channel_path=, timeout=,
\* use_https=) gets back.  camera_fetcher.fetch_camera_image has none of these
\* parameters and requires username and password: the call raises TypeError.
\* vlc_fetcher.fetch_camera_image has the signature the call site uses.
CallFetchOutcomes(f, port) ==
    IF f = "camera_fetcher" THEN {"raise"}
    ELSE IF Selector(f, port) = "http"
         THEN { IF HttpTrySnapshot(f, port, e).raised THEN "raise"
                ELSE HttpTrySnapshot(f, port, e).img : e \in HttpEnvs }
         ELSE {"img", "none"}

(***************************************************************************)
(* Recognizer results                                                      *)
(***************************************************************************)
Face(n, sc) == [name |-> n, score |-> sc]
ResultLists ==
    { <<Face("UNKNOWN", 1)>>,
      <<Face("ann", 1), Face("bob", 2)>>,
      <<Face("ann", 2), Face("ann", 1)>> }

\* known = [r for r in results if r["name"] != "UNKNOWN"]
IsKnown(r) == r.name # "UNKNOWN"
Known_NoFilter(results) == results
Known(results) == SelectSeq(results, IsKnown)

\* best = max(known, key=lambda r: r["score"]): the first face of highest score
Best_First(known) == known[1]
Best(known) ==
    LET top == CHOOSE i \in 1..Len(known) :
                 /\ \A j \in 1..Len(known) : known[j].score <= known[i].score
                 /\ \A j \in 1..(i - 1) : known[j].score < known[i].score
    IN known[top]

LastSeen(name, cam, ts) == [typ |-> "last_seen", name |-> name, cam |-> cam, ts |-> ts]
SightingUpsert(name, cam, ts) ==
    [typ |-> "sighting_upsert", name |-> name, cam |-> cam, ts |-> ts]

(***************************************************************************)
(* camera_worker                                                           *)
(***************************************************************************)
ProcessAlive == mpc # "exited"      \* daemon threads end with the process
InTick == {"fetch", "put_last", "put_sight"}
Ended == {"exited", "crashed"}
Started(i) == i <= spawned
cam_name(i) == aliases[cameras[i]]

\* if stop_event.wait(left): break -- wait returns the flag: True as soon as
\* it is set, False when the timeout ends with the flag still clear
WaitBreaks_SleepsThrough(flag) == FALSE
WaitBreaks(flag) == flag

\* the end of a tick: the results of the tick are dropped and the worker goes
\* on to stop_event.wait(left)
EndTick(i) ==
    /\ wpc' = [wpc EXCEPT ![i] = "wait"]
    /\ wts' = [wts EXCEPT ![i] = 0]
    /\ wimg' = [wimg EXCEPT ![i] = ""]
    /\ wres' = [wres EXCEPT ![i] = <<>>]
    /\ wk' = [wk EXCEPT ![i] = 0]

\* while not stop_event.is_set(): t0 = time.time(); ts = time.strftime(...)
W_Check(i) ==
    /\ ProcessAlive /\ wpc[i] = "check"
    /\ IF stop_event
       THEN /\ wpc' = [wpc EXCEPT ![i] = "exited"]
            /\ UNCHANGED <<wts, clock>>
       ELSE /\ clock < MaxTicks
            /\ clock' = clock + 1
            /\ wts' = [wts EXCEPT ![i] = clock + 1]
            /\ wpc' = [wpc EXCEPT ![i] = "fetch"]
    /\ UNCHANGED <<wimg, wres, wk>>
    /\ UNCHANGED <<configVars, mainVars, sharedVars, writerVars, fetchVars, cadenceVars, playerVars,
                   writerLogVars, scheduleVars,
                   storageVars, loadVars, seqVars>>

\* img, msg = fetch_camera_image(...)
\* if img is None: print(...)
\* else: results = recognize_on_image(...); known = [...]; if known: ...
W_Acquire(i) ==
    /\ ProcessAlive /\ wpc[i] = "fetch"
    /\ \E o \in CallFetchOutcomes(fetcher, ports[cameras[i]]) :
         \/ /\ o = "raise"                              \* the call raises
            /\ wpc' = [wpc EXCEPT ![i] = "crashed"]
            /\ UNCHANGED <<wts, wimg, wres, wk>>
         \/ /\ o = "none"
            /\ EndTick(i)
         \/ /\ o = "img"                                \* the recognizer raises
            /\ wpc' = [wpc EXCEPT ![i] = "crashed"]
            /\ wimg' = [wimg EXCEPT ![i] = "img"]
            /\ UNCHANGED <<wts, wres, wk>>
         \/ /\ o = "img"
            /\ \E r \in ResultLists :
                 IF Known(r) # <<>>
                 THEN /\ wpc' = [wpc EXCEPT ![i] = "put_last"]
                      /\ wimg' = [wimg EXCEPT ![i] = "img"]
                      /\ wres' = [wres EXCEPT ![i] = r]
                      /\ UNCHANGED <<wts, wk>>
                 ELSE EndTick(i)
    /\ UNCHANGED <<configVars, clock, mainVars, sharedVars, writerVars, fetchVars, cadenceVars, playerVars,
                   writerLogVars, scheduleVars,
                   storageVars, loadVars, seqVars>>

\* ON CONFLICT (name) DO UPDATE SET ... = EXCLUDED...: the row of the name
\* takes the timestamp of the row written, whatever it held
Upsert(table, row) == [table EXCEPT ![row.name] = row.ts]

\* the rows of one call, applied in argument order
RECURSIVE UpsertAll(_, _)
UpsertAll(table, rows) ==
    IF rows = <<>> THEN table ELSE UpsertAll(Upsert(table, Head(rows)), Tail(rows))

\* the table an event of each type is written to
TableOf(typ) == IF typ = "last_seen" THEN "last_seen" ELSE "sightings"

\* history: the greatest timestamp enqueued for the event's table and name
Enqueue(hist, ev) ==
    [hist EXCEPT ![TableOf(ev.typ)][ev.name] = IF ev.ts > @ THEN ev.ts ELSE @]

\* dbq = Queue(): no maxsize, so put never waits for room
QueueHasRoom_Bounded(q) == Len(q) < 1
QueueHasRoom(q) == Len(q) >= 0

\* best = max(known, ...); dbq.put(("last_seen", (best["name"], cam_name, ts)))
\* labeled = draw_results(img, results); ok, buf = cv2.imencode(...)
\* if ok: ... else: print("[WARN] JPEG encode failed; skip DB image insert")
W_PutLast(i) ==
    /\ ProcessAlive /\ wpc[i] = "put_last"
    /\ QueueHasRoom(dbq)
    /\ dbq' = Append(dbq, LastSeen(Best(Known(wres[i])).name, cam_name(i), wts[i]))
    /\ enqueued' = enqueued + 1
    /\ newest' = Enqueue(newest, dbq'[Len(dbq')])
    /\ UNCHANGED db
    /\ putAfterStop' = (putAfterStop \/ stop_event)
    /\ \E o \in {"ok", "not_ok", "raise"} :
         \/ /\ o = "ok"
            /\ wpc' = [wpc EXCEPT ![i] = "put_sight"]
            /\ wk' = [wk EXCEPT ![i] = 1]
            /\ UNCHANGED <<wts, wimg, wres>>
         \/ /\ o = "not_ok"
            /\ EndTick(i)
         \/ /\ o = "raise"                  \* draw_results or imencode raises
            /\ wpc' = [wpc EXCEPT ![i] = "crashed"]
            /\ UNCHANGED <<wts, wimg, wres, wk>>
    /\ UNCHANGED <<configVars, clock, mainVars, stop_event, writerVars, fetchVars, cadenceVars, playerVars,
                   writerLogVars, scheduleVars, loadVars, seqVars>>

\* storage calls camera_worker makes for a face it hands over: none, the event
\* goes to dbq (process_camera, the helper camera_worker does not use, calls
\* db_upsert_sighting_bytes itself for each face)
WorkerUpserts_AsProcessCamera(faces) == faces
WorkerUpserts(faces) == 0 * faces

\* for r in known: dbq.put(("sighting_upsert", (r["name"], cam_name, ts, jpg_bytes)))
W_PutSight(i) ==
    /\ ProcessAlive /\ wpc[i] = "put_sight"
    /\ QueueHasRoom(dbq)
    /\ LET known == Known(wres[i]) IN
         /\ dbq' = Append(dbq, SightingUpsert(known[wk[i]].name, cam_name(i), wts[i]))
         /\ IF wk[i] < Len(known)
            THEN /\ wk' = [wk EXCEPT ![i] = @ + 1]
                      /\ UNCHANGED <<wpc, wts, wimg, wres>>
            ELSE EndTick(i)
    /\ enqueued' = enqueued + 1
    /\ newest' = Enqueue(newest, dbq'[Len(dbq')])
    /\ UNCHANGED db
    /\ putAfterStop' = (putAfterStop \/ stop_event)
    /\ upserted' = upserted + WorkerUpserts(1)
    /\ UNCHANGED <<dpc, batch_last, flushed>>
    /\ UNCHANGED <<configVars, clock, mainVars, stop_event, fetchVars, cadenceVars, playerVars,
                   writerLogVars, scheduleVars, loadVars, seqVars>>

\* if stop_event.wait(left): break
W_Wait(i) ==
    /\ ProcessAlive /\ wpc[i] = "wait"
    /\ wpc' = [wpc EXCEPT ![i] = IF WaitBreaks(stop_event) THEN "exited" ELSE "check"]
    /\ UNCHANGED <<wts, wimg, wres, wk>>
    /\ UNCHANGED <<configVars, clock, mainVars, sharedVars, writerVars, fetchVars, cadenceVars, playerVars,
                   writerLogVars, scheduleVars,
                   storageVars, loadVars, seqVars>>

camera_worker(i) ==
    \/ W_Check(i) \/ W_Acquire(i) \/ W_PutLast(i) \/ W_PutSight(i) \/ W_Wait(i)

(***************************************************************************)
(* db_writer                                                               *)
(***************************************************************************)
\* while not stop_event.is_set() or not dbq.empty()
WriterLoopCond(flag, q) == ~flag \/ q # <<>>

\* batch_last and (len(batch_last) >= BATCH_SIZE or (now - last_flush) >= FLUSH_EVERY)
FlushDue_NoSizeTest(batch, since) == batch # <<>> /\ since >= FLUSH_EVERY
FlushDue(batch, since) ==
    batch # <<>> /\ (Len(batch) >= BATCH_SIZE \/ since >= FLUSH_EVERY)

\* conn = db_connect(...); db_init(conn): either may raise, nothing catches it
D_Connect ==
    /\ ProcessAlive /\ dpc = "connect"
    /\ \E ok \in BOOLEAN : dpc' = IF ok THEN "loop" ELSE "crashed"
    /\ UNCHANGED <<batch_last, upserted, flushed>>
    /\ UNCHANGED <<configVars, clock, mainVars, sharedVars, workerVars, fetchVars, cadenceVars, playerVars,
                   writerLogVars, scheduleVars,
                   storageVars, loadVars, seqVars>>

\* one pass of the loop: the loop test, dbq.get(timeout=0.5), the branch on
\* typ, the periodic flush
D_Iter ==
    /\ ProcessAlive /\ dpc = "loop"
    /\ WriterLoopCond(stop_event, dbq)
    /\ LET typ == IF dbq # <<>> THEN Head(dbq).typ ELSE "None"
           batch1 == IF typ = "last_seen" THEN Append(batch_last, Head(dbq))
                     ELSE batch_last
       IN
         /\ dbq' = IF dbq # <<>> THEN Tail(dbq) ELSE dbq
         /\ upserted' = IF typ = "sighting_upsert" THEN upserted + 1 ELSE upserted
         /\ \E since \in 0..FLUSH_EVERY :
              LET db1 == IF typ = "sighting_upsert"
                         THEN [db EXCEPT !["sightings"] = Upsert(@, Head(dbq))]
                         ELSE db
              IN IF FlushDue(batch1, since)
                 THEN /\ flushed' = flushed + Len(batch1)
                      /\ batch_last' = <<>>
                      /\ db' = [db1 EXCEPT !["last_seen"] = UpsertAll(@, batch1)]
                 ELSE /\ batch_last' = batch1
                      /\ db' = db1
                      /\ UNCHANGED flushed
         /\ UNCHANGED newest
    /\ UNCHANGED dpc
    /\ UNCHANGED <<configVars, clock, mainVars, stop_event, enqueued, putAfterStop,
                   workerVars, fetchVars, cadenceVars, playerVars,
                   writerLogVars, scheduleVars, loadVars, seqVars>>

\* if batch_last: -- the test guarding the final flush
FinalFlushDue_Never(batch) == batch # batch
FinalFlushDue(batch) == batch # <<>>

\* the loop test fails; final flush: if batch_last: db_update_last_seen(conn,
\* batch_last); conn.close()
D_Final ==
    /\ ProcessAlive /\ dpc = "loop"
    /\ ~WriterLoopCond(stop_event, dbq)
    /\ flushed' = IF FinalFlushDue(batch_last) THEN flushed + Len(batch_last) ELSE flushed
    /\ db' = IF FinalFlushDue(batch_last)
             THEN [db EXCEPT !["last_seen"] = UpsertAll(@, batch_last)]
             ELSE db
    /\ UNCHANGED newest
    /\ batch_last' = <<>>
    /\ dpc' = "closed"
    /\ UNCHANGED upserted
    /\ UNCHANGED <<configVars, clock, mainVars, sharedVars, workerVars, fetchVars, cadenceVars, playerVars,
                   writerLogVars, scheduleVars, loadVars, seqVars>>

db_writer == D_Connect \/ D_Iter \/ D_Final

(***************************************************************************)
(* main                                                                    *)
(***************************************************************************)
is_alive(i) == Started(i) /\ wpc[i] \notin Ended
db_alive == dpc \notin {"idle", "closed", "crashed"}

\* t.join(timeout=5) returns once the thread has ended or 5 s have been waited
JoinReturns(alive, waited) == ~alive \/ waited >= JOIN_TIMEOUT

\* db_thread = threading.Thread(target=db_writer, ..., daemon=True); start()
M_StartDb ==
    /\ mpc = "start_db"
    /\ dpc' = "connect"
    /\ mpc' = "spawn"
    /\ UNCHANGED <<spawned, batch_last, upserted, flushed>>
    /\ UNCHANGED <<configVars, clock, sharedVars, workerVars, fetchVars, cadenceVars, playerVars,
                   writerLogVars, scheduleVars,
                   storageVars, loadVars, seqVars>>

\* for ip in ips: t = threading.Thread(target=camera_worker, ..., daemon=True); t.start()
M_Spawn ==
    /\ mpc = "spawn"
    /\ IF spawned < Len(cameras)
       THEN /\ spawned' = spawned + 1
            /\ wpc' = [wpc EXCEPT ![spawned + 1] = "check"]
            /\ UNCHANGED mpc
       ELSE /\ mpc' = "waitloop"
            /\ UNCHANGED <<spawned, wpc>>
    /\ UNCHANGED <<wts, wimg, wres, wk>>
    /\ UNCHANGED <<configVars, clock, sharedVars, writerVars, fetchVars, cadenceVars, playerVars,
                   writerLogVars, scheduleVars,
                   storageVars, loadVars, seqVars>>

\* finally: stop_event.set() -- runs whichever way the try block is left
StopOnExit_InterruptOnly(way) == way = "interrupt"
StopOnExit(way) == way \in {"loop_ended", "interrupt"}

\* while any(t.is_alive() for t in workers): time.sleep(1.0)  -- the loop ends;
\* finally: stop_event.set()
M_LoopExit ==
    /\ mpc = "waitloop"
    /\ ~\E i \in 1..Len(cameras) : is_alive(i)
    /\ stop_event' = (stop_event \/ StopOnExit("loop_ended"))
    /\ mpc' = "join"
    /\ UNCHANGED <<spawned, dbq, enqueued, putAfterStop>>
    /\ UNCHANGED <<configVars, clock, workerVars, writerVars, fetchVars, cadenceVars, playerVars,
                   writerLogVars, scheduleVars,
                   storageVars, loadVars, seqVars>>

\* except KeyboardInterrupt: print(...); finally: stop_event.set()
M_KeyboardInterrupt ==
    /\ mpc = "waitloop"
    /\ stop_event' = (stop_event \/ StopOnExit("interrupt"))
    /\ mpc' = "join"
    /\ UNCHANGED <<spawned, dbq, enqueued, putAfterStop>>
    /\ UNCHANGED <<configVars, clock, workerVars, writerVars, fetchVars, cadenceVars, playerVars,
                   writerLogVars, scheduleVars,
                   storageVars, loadVars, seqVars>>

\* for t in workers: t.join(timeout=5)
\* db_thread.join(timeout=5); main returns and the process ends with its daemon
\* threads.  Each join returns once its thread has ended or 5 s have been waited.
M_Join ==
    /\ mpc = "join"
    /\ \A i \in 1..Len(cameras) :
         \E waited \in {0, JOIN_TIMEOUT} : JoinReturns(is_alive(i), waited)
    /\ \E waited \in {0, JOIN_TIMEOUT} : JoinReturns(db_alive, waited)
    /\ mpc' = "exited"
    /\ UNCHANGED spawned
    /\ UNCHANGED <<configVars, clock, sharedVars, workerVars, writerVars, fetchVars, cadenceVars, playerVars,
                   writerLogVars, scheduleVars,
                   storageVars, loadVars, seqVars>>

main == M_StartDb \/ M_Spawn \/ M_LoopExit \/ M_KeyboardInterrupt \/ M_Join

(***************************************************************************)
(* Concurrent mode                                                         *)
(***************************************************************************)
FetchIdle ==
    /\ fport = 0 /\ fenv = <<>> /\ fpc = "idle" /\ fstrategy = ""
    /\ fattempt = 0 /\ fio = 0 /\ flast_err = NoMsg /\ fret = NoReturn
    /\ furl = NoUrl /\ ftext = NoText /\ fhist = <<>>

PlayerIdle ==
    /\ ppc = "idle" /\ pt = 0 /\ pst = "" /\ pframe = FALSE /\ pend = ""
    /\ psnaps = 0 /\ pstops = 0 /\ pinstances = 0 /\ pcreated = 0 /\ psnaplog = <<>>
    /\ pret = [ok |-> FALSE, msg |-> "", raised |-> FALSE]

WriterLogIdle ==
    /\ dnow = 0 /\ dlast_flush = 0 /\ dlog = <<>> /\ dgot = <<>>
    /\ dputs = [c \in Workers |-> 0]

\* nothing stored and nothing enqueued yet
EmptyTables == [t \in {"last_seen", "sightings"} |-> [n \in Names |-> 0]]
StorageIdle == db = EmptyTables /\ newest = EmptyTables

\* a JSON value as Python holds it: its type, its number (int, bool, the
\* whole part of a float) and its characters (str)
PyVal(kind, n, chars) == [kind |-> kind, n |-> n, s |-> chars]

LoadIdle ==
    /\ lpc = "off" /\ lhttps = PyVal("bool", 0, <<>>) /\ lraw = <<>> /\ lcams = <<>>
    /\ lret = "none"

SeqIdle ==
    /\ rpc = "off" /\ rpos = 0 /\ rts = 0 /\ rrows = <<>> /\ rlog = <<>>

ScheduleIdle ==
    /\ sdur = [c \in Workers |-> 0] /\ snext = 0
    /\ kpc = [c \in Workers |-> "idle"] /\ know = [c \in Workers |-> 0]
    /\ kstart = [c \in Workers |-> <<>>] /\ ksess = [c \in Workers |-> 0]
    /\ kused = [c \in Workers |-> {}]
    /\ qpc = "idle" /\ qpos = 0 /\ qnow = 0 /\ qt0 = 0
    /\ qstart = [c \in Workers |-> <<>>] /\ qsess = 0
    /\ qused = [c \in Workers |-> {}]

CadenceIdle ==
    /\ cmode = "" /\ cpc = "idle" /\ cnow = 0 /\ ct0 = 0
    /\ celapsed = 0 /\ cleft = 0 /\ cdeadline = 0

Init ==
    /\ fetcher \in Fetchers
    /\ cameras \in ConfigCameraLists
    /\ interval = DEFAULT_INTERVAL
    /\ clock = 0
    /\ mpc = "start_db" /\ spawned = 0
    /\ stop_event = FALSE /\ dbq = <<>> /\ enqueued = 0 /\ putAfterStop = FALSE
    /\ wpc = [i \in Workers |-> "idle"]
    /\ wts = [i \in Workers |-> 0]
    /\ wimg = [i \in Workers |-> ""]
    /\ wres = [i \in Workers |-> <<>>]
    /\ wk = [i \in Workers |-> 0]
    /\ dpc = "idle" /\ batch_last = <<>> /\ upserted = 0 /\ flushed = 0
    /\ FetchIdle
    /\ CadenceIdle
    /\ PlayerIdle
    /\ WriterLogIdle
    /\ ScheduleIdle
    /\ StorageIdle
    /\ LoadIdle
    /\ SeqIdle

Next ==
    \/ main
    \/ \E i \in Workers : camera_worker(i)
    \/ db_writer

Spec == Init /\ [][Next]_vars

(***************************************************************************)
(* Cadence of one poller, with time                                        *)
(*   concurrent: elapsed = time.time() - t0                                *)
(*               left = max(0.0, interval - elapsed); stop_event.wait(left)*)
(*   sequential: sleep_left = max(0.0, INTERVAL - elapsed)                 *)
(*               if sleep_left > 0: time.sleep(sleep_left)                 *)
(***************************************************************************)
PipelineOff ==
    /\ clock = 0 /\ mpc = "off" /\ spawned = 0
    /\ stop_event = FALSE /\ dbq = <<>> /\ enqueued = 0 /\ putAfterStop = FALSE
    /\ wpc = [i \in Workers |-> "idle"]
    /\ wts = [i \in Workers |-> 0]
    /\ wimg = [i \in Workers |-> ""]
    /\ wres = [i \in Workers |-> <<>>]
    /\ wk = [i \in Workers |-> 0]
    /\ dpc = "idle" /\ batch_last = <<>> /\ upserted = 0 /\ flushed = 0

\* left = max(0.0, interval - elapsed)
SleepLeft_NoClamp(I, T) == I - T
SleepLeft(I, T) == IF I - T > 0 THEN I - T ELSE 0

InitCadence ==
    /\ fetcher = "vlc_fetcher" /\ cameras = <<"10.0.0.1">>
    /\ interval \in -1..MaxInterval
    /\ PipelineOff /\ FetchIdle /\ PlayerIdle /\ WriterLogIdle /\ ScheduleIdle
    /\ StorageIdle /\ LoadIdle /\ SeqIdle
    /\ cmode \in {"concurrent", "sequential"}
    /\ cpc = "tick" /\ cnow = 0 /\ ct0 = 0
    /\ celapsed = 0 /\ cleft = 0 /\ cdeadline = 0

\* time passes
C_Time ==
    /\ cpc \in {"tick", "wait"} /\ cnow < MaxClock
    /\ cnow' = cnow + 1
    /\ UNCHANGED <<cmode, cpc, ct0, celapsed, cleft, cdeadline>>
    /\ UNCHANGED <<configVars, clock, mainVars, sharedVars, workerVars, writerVars,
                   fetchVars, playerVars,
                   writerLogVars, scheduleVars,
                   storageVars, loadVars, seqVars>>

\* the tick is over: elapsed is measured, the remainder is computed, the wait
\* (or sleep) begins
C_EndTick ==
    /\ cpc = "tick"
    /\ celapsed' = cnow - ct0
    /\ cleft' = SleepLeft(interval, cnow - ct0)
    /\ cdeadline' = cnow + SleepLeft(interval, cnow - ct0)
    /\ cpc' = "wait"
    /\ UNCHANGED <<cmode, cnow, ct0>>
    /\ UNCHANGED <<configVars, clock, mainVars, sharedVars, workerVars, writerVars,
                   fetchVars, playerVars,
                   writerLogVars, scheduleVars,
                   storageVars, loadVars, seqVars>>

\* the wait times out (the sleep returns, or was skipped): t0 = time.time()
C_NextTick ==
    /\ cpc = "wait" /\ cnow >= cdeadline
    /\ cpc' = "tick"
    /\ ct0' = cnow
    /\ UNCHANGED <<cmode, cnow, celapsed, cleft, cdeadline>>
    /\ UNCHANGED <<configVars, clock, mainVars, sharedVars, workerVars, writerVars,
                   fetchVars, playerVars,
                   writerLogVars, scheduleVars,
                   storageVars, loadVars, seqVars>>

NextCadence == C_Time \/ C_EndTick \/ C_NextTick

SpecCadence == InitCadence /\ [][NextCadence]_vars

(***************************************************************************)
(* One call of fetch_camera_image                                          *)
(***************************************************************************)
RtspOutcomes == {"ok", "not_ok", "undecodable", "exception"}

\* every attempt is one libVLC player opened with --rtsp-tcp
AttemptPair(f) == [backend |-> "libvlc", transport |-> "tcp"]
Attempt(f, o) ==
    [backend |-> AttemptPair(f).backend, transport |-> AttemptPair(f).transport,
     diag |-> o]

\* return img, f"..." inside the loop, once the snapshot was taken and decoded
ReturnsOnSuccess_Continues(o) == FALSE
ReturnsOnSuccess(o) == o = "ok"

\* last_err before the first attempt
InitialLastErr(f) == IF f = "camera_fetcher" THEN Msg("vlc_no_frame", 0) ELSE NoMsg

\* return None, f"{ip}: {last_err or 'не удалось получить кадр через VLC'}"
FinalRtspMsg(f, last) == IF last = NoMsg THEN Msg("vlc_no_frame", 0) ELSE last

InitFetch ==
    /\ fetcher \in Fetchers /\ cameras = <<>> /\ interval = DEFAULT_INTERVAL
    /\ PipelineOff /\ CadenceIdle /\ PlayerIdle /\ WriterLogIdle /\ ScheduleIdle
    /\ StorageIdle /\ LoadIdle /\ SeqIdle
    /\ fport \in Ports
    /\ fenv \in FetchEnvs
    /\ fpc = "call" /\ fstrategy = "" /\ fattempt = 0 /\ fio = 0
    /\ flast_err = NoMsg /\ fret = NoReturn
    /\ furl = NoUrl /\ ftext = NoText /\ fhist = <<>>

\* if port == 80: ... elif port == 554: ... else: return None, "..."
\* if port in (80, 443): ...  # otherwise RTSP
F_Select ==
    /\ fpc = "call"
    /\ fstrategy' = Selector(fetcher, fport)
    /\ CASE Selector(fetcher, fport) = "http" ->
              /\ fpc' = "http"
              /\ UNCHANGED <<fattempt, flast_err, fret>>
         [] Selector(fetcher, fport) = "rtsp" ->
              \* for i in range(1, n + 1): the loop is entered when n >= 1
              /\ flast_err' = InitialLastErr(fetcher)
              /\ IF RtspAttempts(fetcher, fenv.attempts) >= 1
                 THEN /\ fpc' = "rtsp"
                      /\ fattempt' = 1
                      /\ UNCHANGED fret
                 ELSE /\ fpc' = "done"
                      /\ fret' = Returned("none", FinalRtspMsg(fetcher, InitialLastErr(fetcher)))
                      /\ UNCHANGED fattempt
         [] OTHER ->
              /\ fpc' = "done"
              /\ fret' = Returned("none", Msg("unsupported_port", fport))
              /\ UNCHANGED <<fattempt, flast_err>>
    /\ UNCHANGED <<fport, fenv, fio, furl, ftext, fhist>>
    /\ UNCHANGED <<configVars, clock, mainVars, sharedVars, workerVars, writerVars,
                   cadenceVars, playerVars,
                   writerLogVars, scheduleVars,
                   storageVars, loadVars, seqVars>>

\* return _http_try_snapshot(...)
F_Http ==
    /\ fpc = "http"
    /\ fio' = fio + 1
    /\ furl' = HttpUrl(fetcher, fport, fenv.use_https)
    /\ fret' = HttpTrySnapshot(fetcher, fport, fenv)
    /\ ftext' = IF fenv.transport = "ok" /\ fenv.status # 200
                THEN StatusMessageText(ResponseText(fenv.text))
                ELSE NoText
    /\ fpc' = "done"
    /\ UNCHANGED <<fport, fenv, fstrategy, fattempt, flast_err, fhist>>
    /\ UNCHANGED <<configVars, clock, mainVars, sharedVars, workerVars, writerVars,
                   cadenceVars, playerVars,
                   writerLogVars, scheduleVars,
                   storageVars, loadVars, seqVars>>

\* one pass of: for i in range(1, attempts + 1): try: ok, msg =
\* _vlc_take_snapshot_to_file(...) ... except Exception as e: ...
\* and, after the last pass, return None, last_err
F_RtspAttempt ==
    /\ fpc = "rtsp"
    /\ fio' = fio + 1
    /\ \E o \in RtspOutcomes :
         /\ fhist' = Append(fhist, Attempt(fetcher, o))
         /\ IF ReturnsOnSuccess(o)
            THEN /\ fret' = Returned("img", Msg("vlc_snapshot_ok", 0))
                 /\ fpc' = "done"
                 /\ UNCHANGED <<fattempt, flast_err>>
            ELSE /\ flast_err' = Msg(o, 0)
                 /\ IF fattempt < RtspAttempts(fetcher, fenv.attempts)
                    THEN /\ fattempt' = fattempt + 1
                         /\ UNCHANGED <<fpc, fret>>
                    ELSE /\ fpc' = "done"
                         /\ fret' = Returned("none", FinalRtspMsg(fetcher, Msg(o, 0)))
                         /\ UNCHANGED fattempt
    /\ UNCHANGED <<fport, fenv, fstrategy, furl, ftext>>
    /\ UNCHANGED <<configVars, clock, mainVars, sharedVars, workerVars, writerVars,
                   cadenceVars, playerVars,
                   writerLogVars, scheduleVars,
                   storageVars, loadVars, seqVars>>

NextFetch == F_Select \/ F_Http \/ F_RtspAttempt

SpecFetch == InitFetch /\ [][NextFetch]_vars

(***************************************************************************)
(* One call of _vlc_take_snapshot_to_file: the embedded player             *)
(*   camera_fetcher: polls until Playing with a frame size, then asks for  *)
(*                   the snapshot up to six times                          *)
(*   vlc_fetcher:    asks for the snapshot once, as soon as Playing is     *)
(*                   observed                                              *)
(* Time is counted in polling intervals (time.sleep(0.08) / 0.15).         *)
(***************************************************************************)
PlayerStates ==
    {"NothingSpecial", "Opening", "Buffering", "Playing", "Paused", "Stopped",
     "Ended", "Error"}
WaitingStates == {"Opening", "Buffering", "NothingSpecial"}

PlayerReturned(ok, msg) == [ok |-> ok, msg |-> msg, raised |-> FALSE]
PlayerRaised == [ok |-> FALSE, msg |-> "exception", raised |-> TRUE]

\* while time.time() - start < connect_timeout_s
BeforeDeadline(t) == t < MaxPollTime

\* if not (width and height): return False, "VLC: кадр не готов ..."
HasFrameSize_Always(seen) == TRUE
HasFrameSize(seen) == seen

\* the sleep before a snapshot request, in hundredths of a second
\*   camera_fetcher: time.sleep(0.25 + 0.12 * attempt), attempt = 0..5
\*   vlc_fetcher:    time.sleep(0.4), once
SnapshotPause_Flat(f, attempt) == IF f = "camera_fetcher" THEN 25 ELSE 40
SnapshotPause(f, attempt) == IF f = "camera_fetcher" THEN 25 + 12 * attempt ELSE 40

\* rc == 0 and outfile.exists() and outfile.stat().st_size > 0
\* (size 0 stands for a missing or an empty file)
SnapshotOk(rc, size) == rc = 0 /\ size > 0

SnapshotRequest(f, attempt, rc, size) ==
    [pause |-> SnapshotPause(f, attempt), rc |-> rc, size |-> size]

InitPlayer ==
    /\ fetcher \in Fetchers /\ cameras = <<>> /\ interval = DEFAULT_INTERVAL
    /\ PipelineOff /\ CadenceIdle /\ FetchIdle /\ WriterLogIdle /\ ScheduleIdle
    /\ StorageIdle /\ LoadIdle /\ SeqIdle
    /\ ppc = "create" /\ pt = 0 /\ pst = "" /\ pframe = FALSE /\ pend = ""
    /\ psnaps = 0 /\ pstops = 0 /\ pinstances = 0 /\ pcreated = 0 /\ psnaplog = <<>>
    /\ pret = PlayerReturned(FALSE, "")

\* instance = vlc.Instance(*vlc_args); player = instance.media_player_new()
\* media = instance.media_new(rtsp_url); media.add_option(...); player.set_media(media)
\* These statements stand before the try: an exception raised by one of them
\* leaves the function without passing through the finally block.
\*   "no_instance"  vlc.Instance fails: no player is created
\*   "setup_raises" media_new, add_option or set_media raises after the player
\*                  was created
P_Create ==
    /\ ppc = "create"
    /\ \E outcome \in {"ok", "no_instance", "setup_raises"} :
         CASE outcome = "ok" ->
                /\ pinstances' = pinstances + 1 /\ pcreated' = pcreated + 1
                /\ ppc' = "play" /\ UNCHANGED pret
           [] outcome = "no_instance" ->
                /\ ppc' = "done" /\ pret' = PlayerRaised
                /\ UNCHANGED <<pinstances, pcreated>>
           [] outcome = "setup_raises" ->
                /\ pinstances' = pinstances + 1 /\ pcreated' = pcreated + 1
                /\ ppc' = "done" /\ pret' = PlayerRaised
    /\ UNCHANGED <<pt, pst, pframe, pend, psnaps, pstops, psnaplog>>
    /\ UNCHANGED <<configVars, clock, mainVars, sharedVars, workerVars, writerVars,
                   cadenceVars, fetchVars,
                   writerLogVars, scheduleVars,
                   storageVars, loadVars, seqVars>>

\* if player.play() == -1: return False, "..."; start = time.time()
P_Play ==
    /\ ppc = "play"
    /\ \E rc \in {0, -1} :
         IF rc = -1
         THEN /\ pret' = PlayerReturned(FALSE, "play_failed")
              /\ ppc' = "teardown"
         ELSE /\ ppc' = "poll"
              /\ UNCHANGED pret
    /\ UNCHANGED <<pt, pst, pframe, pend, psnaps, pstops, pinstances, pcreated, psnaplog>>
    /\ UNCHANGED <<configVars, clock, mainVars, sharedVars, workerVars, writerVars,
                   cadenceVars, fetchVars,
                   writerLogVars, scheduleVars,
                   storageVars, loadVars, seqVars>>

\* a call inside the try block raises (player.play, get_state, video_get_size,
\* video_take_snapshot, outfile.stat): control passes to the finally block
P_Raise ==
    /\ ppc \in {"play", "poll", "snap"}
    /\ pret' = PlayerRaised
    /\ ppc' = "teardown"
    /\ UNCHANGED <<pt, pst, pframe, pend, psnaps, pstops, pinstances, pcreated, psnaplog>>
    /\ UNCHANGED <<configVars, clock, mainVars, sharedVars, workerVars, writerVars,
                   cadenceVars, fetchVars,
                   writerLogVars, scheduleVars,
                   storageVars, loadVars, seqVars>>

\* the loop test fails: the deadline has passed
P_Deadline ==
    /\ ppc = "poll" /\ ~BeforeDeadline(pt)
    /\ pend' = "deadline"
    /\ IF fetcher = "camera_fetcher" /\ HasFrameSize(pframe)
       THEN /\ ppc' = "snap"
            /\ UNCHANGED pret
       ELSE /\ ppc' = "teardown"
            /\ pret' = PlayerReturned(FALSE, "no_frame")
    /\ UNCHANGED <<pt, pst, pframe, psnaps, pstops, pinstances, pcreated, psnaplog>>
    /\ UNCHANGED <<configVars, clock, mainVars, sharedVars, workerVars, writerVars,
                   cadenceVars, fetchVars,
                   writerLogVars, scheduleVars,
                   storageVars, loadVars, seqVars>>

\* one pass of the polling loop of camera_fetcher._vlc_take_snapshot_to_file
P_PollCameraFetcher(st, frame, dt) ==
    /\ pst' = st
    /\ CASE st = "Error" ->
              /\ pend' = "error" /\ ppc' = "teardown"
              /\ pret' = PlayerReturned(FALSE, "stream_error")
              /\ UNCHANGED <<pt, pframe>>
         [] st \in WaitingStates ->
              /\ pt' = pt + 1                       \* time.sleep(0.08); continue
              /\ UNCHANGED <<ppc, pframe, pend, pret>>
         [] st = "Playing" /\ frame ->              \* w and h: break
              /\ pframe' = TRUE /\ pend' = "frame"
              /\ IF HasFrameSize(TRUE)
                 THEN ppc' = "snap" /\ UNCHANGED pret
                 ELSE ppc' = "teardown" /\ pret' = PlayerReturned(FALSE, "no_frame")
              /\ UNCHANGED pt
         [] st = "Playing" /\ ~frame ->
              /\ pt' = pt + 1                       \* time.sleep(0.08); continue
              /\ UNCHANGED <<ppc, pframe, pend, pret>>
         [] st = "Ended" ->
              /\ pend' = "ended" /\ ppc' = "teardown"
              /\ pret' = PlayerReturned(FALSE, "stream_ended")
              /\ UNCHANGED <<pt, pframe>>
         [] OTHER ->                                \* no branch taken, no sleep
              /\ pt' = pt + dt
              /\ UNCHANGED <<ppc, pframe, pend, pret>>
    /\ UNCHANGED <<psnaps, psnaplog>>

\* one pass of the polling loop of vlc_fetcher._vlc_take_snapshot_to_file
P_PollVlcFetcher(st, frame, dt, rc, size) ==
    /\ pst' = st
    /\ CASE st = "Playing" ->                       \* sleep(0.4); snapshot; break
              /\ psnaps' = psnaps + 1
              /\ psnaplog' = Append(psnaplog, SnapshotRequest(fetcher, psnaps, rc, size))
              /\ pend' = IF frame THEN "frame" ELSE "playing_no_frame"
              /\ ppc' = "teardown"
              /\ pret' = IF SnapshotOk(rc, size) THEN PlayerReturned(TRUE, "snapshot_ok")
                         ELSE PlayerReturned(FALSE, "no_frame")
              /\ UNCHANGED pt
         [] st \in WaitingStates ->
              /\ pt' = pt + 1                       \* time.sleep(0.15); continue
              /\ UNCHANGED <<ppc, pend, pret, psnaps, psnaplog>>
         [] st \in {"Error", "Ended"} ->            \* break
              /\ pend' = IF st = "Error" THEN "error" ELSE "ended"
              /\ ppc' = "teardown"
              /\ pret' = PlayerReturned(FALSE, "no_frame")
              /\ UNCHANGED <<pt, psnaps, psnaplog>>
         [] OTHER ->                                \* no branch taken, no sleep
              /\ pt' = pt + dt
              /\ UNCHANGED <<ppc, pend, pret, psnaps, psnaplog>>
    /\ UNCHANGED pframe

\* st = player.get_state() and the branch on it
P_Poll ==
    /\ ppc = "poll" /\ BeforeDeadline(pt)
    /\ \E st \in PlayerStates, frame \in BOOLEAN, dt \in {0, 1},
          rc \in {0, -1}, size \in {0, 1} :
         IF fetcher = "camera_fetcher"
         THEN P_PollCameraFetcher(st, frame, dt)
         ELSE P_PollVlcFetcher(st, frame, dt, rc, size)
    /\ UNCHANGED <<pstops, pinstances, pcreated>>
    /\ UNCHANGED <<configVars, clock, mainVars, sharedVars, workerVars, writerVars,
                   cadenceVars, fetchVars,
                   writerLogVars, scheduleVars,
                   storageVars, loadVars, seqVars>>

\* for attempt in range(6): time.sleep(0.25 + 0.12 * attempt)
\*     rc = player.video_take_snapshot(0, str(outfile), 0, 0)
\*     if rc == 0 and outfile.exists() and outfile.stat().st_size > 0: return True
\* return False, "VLC: кадр не получен ..."
P_Snapshot ==
    /\ ppc = "snap"
    /\ psnaps' = psnaps + 1
    /\ \E rc \in {0, -1}, size \in {0, 1} :
         /\ psnaplog' = Append(psnaplog, SnapshotRequest(fetcher, psnaps, rc, size))
         /\ IF SnapshotOk(rc, size)
            THEN /\ pret' = PlayerReturned(TRUE, "snapshot_ok")
                 /\ ppc' = "teardown"
            ELSE IF psnaps + 1 >= SNAPSHOT_TRIES
                 THEN /\ pret' = PlayerReturned(FALSE, "frame_not_obtained")
                      /\ ppc' = "teardown"
                 ELSE UNCHANGED <<pret, ppc>>
    /\ UNCHANGED <<pt, pst, pframe, pend, pstops, pinstances, pcreated>>
    /\ UNCHANGED <<configVars, clock, mainVars, sharedVars, workerVars, writerVars,
                   cadenceVars, fetchVars,
                   writerLogVars, scheduleVars,
                   storageVars, loadVars, seqVars>>

\* finally: try: player.stop() except Exception: pass; del player, media, instance
P_Teardown ==
    /\ ppc = "teardown"
    /\ pstops' = pstops + 1
    /\ ppc' = "done"
    /\ UNCHANGED <<pt, pst, pframe, pend, psnaps, pinstances, pcreated, psnaplog, pret>>
    /\ UNCHANGED <<configVars, clock, mainVars, sharedVars, workerVars, writerVars,
                   cadenceVars, fetchVars,
                   writerLogVars, scheduleVars,
                   storageVars, loadVars, seqVars>>

NextPlayer == P_Create \/ P_Play \/ P_Raise \/ P_Deadline \/ P_Poll \/ P_Snapshot \/ P_Teardown

SpecPlayer == InitPlayer /\ [][NextPlayer]_vars

(***************************************************************************)
(* db_writer with time and the storage calls it makes                      *)
(* The camera_worker threads are seen from the queue: each camera puts its *)
(* events one after the other, ts numbers them per camera.                 *)
(***************************************************************************)
CamName(c) == aliases[<<"10.0.0.1", "10.0.0.2">>[c]]

\* a call of a storage function, its rows in argument order, and whether it
\* returned (ok) or raised
StorageCall(op, rows, ok) == [op |-> op, rows |-> rows, ok |-> ok]

\* try: <storage call> except Exception as e: print(...) -- the exception is
\* caught and printed, the writer goes on to the statement after the try
OnStorageError_Propagates(ok, next) == IF ok THEN next ELSE "crashed"
OnStorageError(ok, next) == IF ok THEN next ELSE next

\* batch_last.append(payload)
BatchAppend_Prepend(batch, row) == <<row>> \o batch
BatchAppend(batch, row) == Append(batch, row)

\* elif typ == "sighting_upsert": ... db_upsert_sighting_bytes(conn, ...)
IsImmediate_Never(typ) == FALSE
IsImmediate(typ) == typ = "sighting_upsert"

\* the person each camera sees
Seen(c) == IF c = 1 THEN "ann" ELSE "bob"

\* a camera that puts one last_seen event after the other while the writer
\* is still inside db_connect / db_init
Burst == [k \in 1..(BATCH_SIZE + 1) |-> LastSeen(Seen(1), CamName(1), k)]

InitWriter ==
    /\ fetcher = "vlc_fetcher" /\ cameras = <<"10.0.0.1", "10.0.0.2">>
    /\ interval = DEFAULT_INTERVAL
    /\ clock = 0 /\ mpc = "off" /\ spawned = 0
    /\ wpc = [i \in Workers |-> "idle"]
    /\ wts = [i \in Workers |-> 0]
    /\ wimg = [i \in Workers |-> ""]
    /\ wres = [i \in Workers |-> <<>>]
    /\ wk = [i \in Workers |-> 0]
    /\ FetchIdle /\ CadenceIdle /\ PlayerIdle /\ ScheduleIdle
    /\ StorageIdle /\ LoadIdle /\ SeqIdle
    /\ stop_event = FALSE /\ putAfterStop = FALSE
    /\ dbq \in {<<>>, Burst}
    /\ enqueued = Len(dbq)
    /\ dputs = [c \in Workers |-> IF c = 1 THEN Len(dbq) ELSE 0]
    \* batch_last = []; last_flush = time.time()
    /\ dpc = "loop" /\ batch_last = <<>> /\ upserted = 0 /\ flushed = 0
    /\ dnow = 0 /\ dlast_flush = 0 /\ dlog = <<>> /\ dgot = <<>>

\* a camera_worker puts its next event
DW_Put(c, typ) ==
    /\ dpc = "loop" /\ enqueued < MaxWriterPuts
    /\ QueueHasRoom(dbq)
    /\ dbq' = Append(dbq, IF typ = "last_seen"
                          THEN LastSeen(Seen(c), CamName(c), dputs[c] + 1)
                          ELSE SightingUpsert(Seen(c), CamName(c), dputs[c] + 1))
    /\ dputs' = [dputs EXCEPT ![c] = @ + 1]
    /\ enqueued' = enqueued + 1
    /\ putAfterStop' = (putAfterStop \/ stop_event)
    /\ UNCHANGED <<stop_event, dpc, batch_last, upserted, flushed, dnow, dlast_flush,
                   dlog, dgot>>
    /\ UNCHANGED <<configVars, clock, mainVars, workerVars, fetchVars, cadenceVars,
                   playerVars, scheduleVars,
                   storageVars, loadVars, seqVars>>

\* main: stop_event.set()
DW_Stop ==
    /\ dpc = "loop" /\ ~stop_event
    /\ stop_event' = TRUE
    /\ UNCHANGED <<dbq, enqueued, putAfterStop, writerVars, writerLogVars>>
    /\ UNCHANGED <<configVars, clock, mainVars, workerVars, fetchVars, cadenceVars,
                   playerVars, scheduleVars,
                   storageVars, loadVars, seqVars>>

\* time passes
DW_Time ==
    /\ dpc = "loop" /\ dnow < MaxWriterClock
    /\ dnow' = dnow + 1
    /\ UNCHANGED <<dlast_flush, dlog, dgot, dputs, sharedVars, writerVars>>
    /\ UNCHANGED <<configVars, clock, mainVars, workerVars, fetchVars, cadenceVars,
                   playerVars, scheduleVars,
                   storageVars, loadVars, seqVars>>

\* one pass of the loop: the loop test, dbq.get(timeout=0.5), the branch on
\* typ, now = time.time(), the periodic flush
DW_Iter ==
    /\ dpc = "loop"
    /\ WriterLoopCond(stop_event, dbq)
    /\ LET got == dbq # <<>>
           ev == Head(dbq)
           typ == IF got THEN ev.typ ELSE "None"
           batch1 == IF typ = "last_seen" THEN BatchAppend(batch_last, ev)
                     ELSE batch_last
       IN
         /\ dbq' = IF got THEN Tail(dbq) ELSE dbq
         /\ dgot' = IF got THEN Append(dgot, ev) ELSE dgot
         /\ upserted' = IF IsImmediate(typ) THEN upserted + 1 ELSE upserted
         /\ \E ok1 \in (IF IsImmediate(typ) THEN BOOLEAN ELSE {TRUE}) :
            \E ok2 \in (IF FlushDue(batch1, dnow - dlast_flush) THEN BOOLEAN ELSE {TRUE}) :
            LET log1 == IF IsImmediate(typ)
                        THEN Append(dlog, StorageCall("db_upsert_sighting_bytes", <<ev>>, ok1))
                        ELSE dlog
                pos1 == OnStorageError(ok1, "loop")
            IN IF pos1 # "loop"
               THEN /\ dlog' = log1 /\ batch_last' = batch1 /\ dpc' = pos1
                    /\ UNCHANGED <<flushed, dlast_flush>>
               ELSE IF FlushDue(batch1, dnow - dlast_flush)
               THEN /\ dlog' = Append(log1, StorageCall("db_update_last_seen", batch1, ok2))
                    /\ dpc' = OnStorageError(ok2, "loop")
                    /\ flushed' = flushed + Len(batch1)
                    /\ batch_last' = IF dpc' = "loop" THEN <<>> ELSE batch1
                    /\ dlast_flush' = IF dpc' = "loop" THEN dnow ELSE dlast_flush
               ELSE /\ dlog' = log1
                    /\ batch_last' = batch1
                    /\ UNCHANGED <<dpc, flushed, dlast_flush>>
    /\ UNCHANGED <<dnow, dputs, stop_event, enqueued, putAfterStop>>
    /\ UNCHANGED <<configVars, clock, mainVars, workerVars, fetchVars, cadenceVars,
                   playerVars, scheduleVars,
                   storageVars, loadVars, seqVars>>

\* the loop test fails; if batch_last: db_update_last_seen(conn, batch_last);
\* conn.close()
DW_Final ==
    /\ dpc = "loop"
    /\ ~WriterLoopCond(stop_event, dbq)
    /\ IF FinalFlushDue(batch_last)
       THEN \E ok \in BOOLEAN :
            /\ dlog' = Append(dlog, StorageCall("db_update_last_seen", batch_last, ok))
            /\ flushed' = flushed + Len(batch_last)
            /\ dpc' = OnStorageError(ok, "closed")
       ELSE /\ dpc' = "closed"
            /\ UNCHANGED <<dlog, flushed>>
    /\ batch_last' = <<>>
    /\ UNCHANGED <<upserted, dnow, dlast_flush, dgot, dputs, sharedVars>>
    /\ UNCHANGED <<configVars, clock, mainVars, workerVars, fetchVars, cadenceVars,
                   playerVars, scheduleVars,
                   storageVars, loadVars, seqVars>>

NextWriter ==
    \/ \E c \in Workers, typ \in {"last_seen", "sighting_upsert"} : DW_Put(c, typ)
    \/ DW_Stop
    \/ DW_Time
    \/ DW_Iter
    \/ DW_Final

SpecWriter == InitWriter /\ [][NextWriter]_vars

(***************************************************************************)
(* Tick starts of the same two cameras under both schedulings              *)
(*   concurrent (src/main.py): one camera_worker thread per camera         *)
(*   sequential (src/recognition/main.py): one loop over ips               *)
(* Times are in tenths of a second; each scheduling has its own clock.     *)
(***************************************************************************)
Durations == {5 * k : k \in 0..MaxDur}
Tenths(sec) == 10 * sec

\* make_session_no_retries(): s = requests.Session() ... return s
NewSession_Singleton(n) == 1
NewSession(n) == n

\* sequential: fetch_camera_image(...), recognition, time.sleep(GAP)
SeqTickEnd_NoWait(now, T) == now + DEFAULT_GAP
SeqTickEnd(now, T) == now + T + DEFAULT_GAP

InitSchedule ==
    /\ fetcher = "vlc_fetcher" /\ cameras = <<"10.0.0.1", "10.0.0.2">>
    /\ interval \in 0..MaxInterval
    /\ PipelineOff /\ FetchIdle /\ PlayerIdle /\ CadenceIdle /\ WriterLogIdle
    /\ StorageIdle /\ LoadIdle /\ SeqIdle
    /\ sdur \in [Workers -> Durations]
    /\ snext = 1
    /\ kpc = [c \in Workers |-> "new"] /\ know = [c \in Workers |-> 0]
    /\ kstart = [c \in Workers |-> <<>>] /\ ksess = [c \in Workers |-> 0]
    /\ kused = [c \in Workers |-> {}]
    /\ qpc = "new" /\ qpos = 1 /\ qnow = 0 /\ qt0 = 0
    /\ qstart = [c \in Workers |-> <<>>] /\ qsess = 0
    /\ qused = [c \in Workers |-> {}]

\* camera_worker: sess = make_session_no_retries()
K_Session(c) ==
    /\ kpc[c] = "new"
    /\ ksess' = [ksess EXCEPT ![c] = NewSession(snext)]
    /\ snext' = snext + 1
    /\ kpc' = [kpc EXCEPT ![c] = "start"]
    /\ UNCHANGED <<sdur, know, kstart, kused, qpc, qpos, qnow, qt0, qstart, qsess, qused>>
    /\ UNCHANGED <<configVars, clock, mainVars, sharedVars, workerVars, writerVars,
                   fetchVars, cadenceVars, playerVars, writerLogVars,
                   storageVars, loadVars, seqVars>>

\* camera_worker: t0 = time.time(); fetch_camera_image(session=sess, ...)
K_Begin(c) ==
    /\ kpc[c] = "start" /\ Len(kstart[c]) < MaxCycles
    /\ kstart' = [kstart EXCEPT ![c] = Append(@, know[c])]
    /\ kused' = [kused EXCEPT ![c] = @ \cup {ksess[c]}]
    /\ kpc' = [kpc EXCEPT ![c] = "tick"]
    /\ UNCHANGED <<sdur, snext, know, ksess, qpc, qpos, qnow, qt0, qstart, qsess, qused>>
    /\ UNCHANGED <<configVars, clock, mainVars, sharedVars, workerVars, writerVars,
                   fetchVars, cadenceVars, playerVars, writerLogVars,
                   storageVars, loadVars, seqVars>>

\* camera_worker: the tick ends; elapsed = time.time() - t0
\* left = max(0.0, interval - elapsed); stop_event.wait(left) times out
K_End(c) ==
    /\ kpc[c] = "tick"
    /\ know' = [know EXCEPT ![c] = @ + sdur[c] + SleepLeft(Tenths(interval), sdur[c])]
    /\ kpc' = [kpc EXCEPT ![c] = "start"]
    /\ UNCHANGED <<sdur, snext, kstart, ksess, kused, qpc, qpos, qnow, qt0, qstart,
                   qsess, qused>>
    /\ UNCHANGED <<configVars, clock, mainVars, sharedVars, workerVars, writerVars,
                   fetchVars, cadenceVars, playerVars, writerLogVars,
                   storageVars, loadVars, seqVars>>

\* sequential main: sess = make_session_no_retries(); while True: t0 = time.time()
Q_Session ==
    /\ qpc = "new"
    /\ qsess' = NewSession(snext)
    /\ snext' = snext + 1
    /\ qt0' = qnow
    /\ qpc' = "start"
    /\ UNCHANGED <<sdur, kpc, know, kstart, ksess, kused, qpos, qnow, qstart, qused>>
    /\ UNCHANGED <<configVars, clock, mainVars, sharedVars, workerVars, writerVars,
                   fetchVars, cadenceVars, playerVars, writerLogVars,
                   storageVars, loadVars, seqVars>>

\* sequential main: for ip in ips: fetch_camera_image(session=sess, ...)
Q_Begin ==
    /\ qpc = "start" /\ Len(qstart[qpos]) < MaxCycles
    /\ qstart' = [qstart EXCEPT ![qpos] = Append(@, qnow)]
    /\ qused' = [qused EXCEPT ![qpos] = @ \cup {qsess}]
    /\ qpc' = "tick"
    /\ UNCHANGED <<sdur, snext, kpc, know, kstart, ksess, kused, qpos, qnow, qt0, qsess>>
    /\ UNCHANGED <<configVars, clock, mainVars, sharedVars, workerVars, writerVars,
                   fetchVars, cadenceVars, playerVars, writerLogVars,
                   storageVars, loadVars, seqVars>>

\* sequential main: the camera's pass ends with time.sleep(GAP); after the
\* last camera: elapsed = time.time() - t0
\* sleep_left = max(0.0, INTERVAL - elapsed); time.sleep(sleep_left); t0 = time.time()
Q_End ==
    /\ qpc = "tick"
    /\ LET after == SeqTickEnd(qnow, sdur[qpos]) IN
         IF qpos < Len(cameras)
         THEN /\ qnow' = after
              /\ qpos' = qpos + 1
              /\ UNCHANGED qt0
         ELSE /\ qnow' = after + SleepLeft(Tenths(interval), after - qt0)
              /\ qt0' = after + SleepLeft(Tenths(interval), after - qt0)
              /\ qpos' = 1
    /\ qpc' = "start"
    /\ UNCHANGED <<sdur, snext, kpc, know, kstart, ksess, kused, qstart, qsess, qused>>
    /\ UNCHANGED <<configVars, clock, mainVars, sharedVars, workerVars, writerVars,
                   fetchVars, cadenceVars, playerVars, writerLogVars,
                   storageVars, loadVars, seqVars>>

NextSchedule ==
    \/ \E c \in Workers : K_Session(c) \/ K_Begin(c) \/ K_End(c)
    \/ Q_Session
    \/ Q_Begin
    \/ Q_End

SpecSchedule == InitSchedule /\ [][NextSchedule]_vars

(***************************************************************************)
(* The loop of the sequential main (src/recognition/main.py): what each    *)
(* cycle collects, writes and leaves behind                                *)
(***************************************************************************)
SeqEvent(op, cam, rows) == [op |-> op, cam |-> cam, rows |-> rows]

\* what one camera's pass can give: no frame, or the recognizer's results
SeqResults == {<<>>} \cup ResultLists

\* best = max(results, key=...); if best["name"] != "UNKNOWN":
\*     last_rows.append((best["name"], cam_name, ts))
Collect(rows, results, cam, ts) ==
    IF results # <<>> /\ IsKnown(Best(results))
    THEN Append(rows, LastSeen(Best(results).name, cam, ts))
    ELSE rows

InitSequential ==
    /\ fetcher \in Fetchers /\ cameras = <<"10.0.0.1", "10.0.0.2">>
    /\ interval = DEFAULT_INTERVAL
    /\ PipelineOff /\ FetchIdle /\ PlayerIdle /\ CadenceIdle /\ WriterLogIdle
    /\ ScheduleIdle /\ StorageIdle /\ LoadIdle
    /\ rpc = "top" /\ rpos = 0 /\ rts = 0 /\ rrows = <<>> /\ rlog = <<>>

\* while True: t0 = ...; ts = ...; last_rows = []; for ip in ips:
R_Cycle ==
    /\ rpc = "top" /\ rts < MaxSeqCycles
    /\ rts' = rts + 1
    /\ rrows' = <<>>
    /\ rpos' = 1
    /\ rpc' = IF cameras = <<>> THEN "write" ELSE "poll"
    /\ UNCHANGED rlog
    /\ UNCHANGED <<configVars, clock, mainVars, sharedVars, workerVars, writerVars,
                   fetchVars, cadenceVars, playerVars, writerLogVars, scheduleVars,
                   storageVars, loadVars>>

\* fetch_camera_image(...); recognize_on_image(...); last_rows.append(...)
R_Poll ==
    /\ rpc = "poll"
    /\ \E results \in SeqResults :
         rrows' = Collect(rrows, results, aliases[cameras[rpos]], rts)
    /\ rlog' = Append(rlog, SeqEvent("poll", rpos,
                                     SubSeq(rrows', Len(rrows) + 1, Len(rrows'))))
    /\ rpc' = "gap"
    /\ UNCHANGED <<rpos, rts>>
    /\ UNCHANGED <<configVars, clock, mainVars, sharedVars, workerVars, writerVars,
                   fetchVars, cadenceVars, playerVars, writerLogVars, scheduleVars,
                   storageVars, loadVars>>

\* time.sleep(GAP); the for loop goes to the next ip or ends
R_Gap ==
    /\ rpc = "gap"
    /\ rlog' = Append(rlog, SeqEvent("gap", rpos, <<>>))
    /\ IF rpos < Len(cameras)
       THEN /\ rpos' = rpos + 1 /\ rpc' = "poll"
       ELSE /\ rpc' = "write" /\ UNCHANGED rpos
    /\ UNCHANGED <<rts, rrows>>
    /\ UNCHANGED <<configVars, clock, mainVars, sharedVars, workerVars, writerVars,
                   fetchVars, cadenceVars, playerVars, writerLogVars, scheduleVars,
                   storageVars, loadVars>>

\* if last_rows: db_update_last_seen(conn, last_rows); a storage exception
\* leaves the loop through finally: conn.close()
R_Write ==
    /\ rpc = "write"
    /\ IF rrows # <<>>
       THEN \E ok \in BOOLEAN :
              IF ok
              THEN /\ rlog' = Append(rlog, SeqEvent("write", 0, rrows))
                   /\ rpc' = "sleep"
              ELSE /\ rlog' = Append(Append(rlog, SeqEvent("write", 0, rrows)),
                                     SeqEvent("close", 0, <<>>))
                   /\ rpc' = "closed"
       ELSE /\ rpc' = "sleep" /\ UNCHANGED rlog
    /\ UNCHANGED <<rpos, rts, rrows>>
    /\ UNCHANGED <<configVars, clock, mainVars, sharedVars, workerVars, writerVars,
                   fetchVars, cadenceVars, playerVars, writerLogVars, scheduleVars,
                   storageVars, loadVars>>

\* elapsed = ...; sleep_left = ...; time.sleep(sleep_left); back to while True
R_Sleep ==
    /\ rpc = "sleep"
    /\ rpc' = "top"
    /\ UNCHANGED <<rpos, rts, rrows, rlog>>
    /\ UNCHANGED <<configVars, clock, mainVars, sharedVars, workerVars, writerVars,
                   fetchVars, cadenceVars, playerVars, writerLogVars, scheduleVars,
                   storageVars, loadVars>>

\* except KeyboardInterrupt: print(...); finally: conn.close() -- the
\* interrupt can arrive at any statement of the try block
R_Interrupt ==
    /\ rpc \in {"top", "poll", "gap", "write", "sleep"}
    /\ rlog' = Append(rlog, SeqEvent("close", 0, <<>>))
    /\ rpc' = "closed"
    /\ UNCHANGED <<rpos, rts, rrows>>
    /\ UNCHANGED <<configVars, clock, mainVars, sharedVars, workerVars, writerVars,
                   fetchVars, cadenceVars, playerVars, writerLogVars, scheduleVars,
                   storageVars, loadVars>>

NextSequential ==
    \/ R_Cycle
    \/ R_Poll
    \/ R_Gap
    \/ R_Write
    \/ R_Sleep
    \/ R_Interrupt

SpecSequential == InitSequential /\ [][NextSequential]_vars

(***************************************************************************)
(* load_config: the normalisation of settings.https and of the cameras'    *)
(* ports                                                                   *)
(***************************************************************************)
PORT_MIN == 1
PORT_MAX == 65535
HTTP_PORT == 80
HTTPS_PORT == 443

Missing == PyVal("missing", 0, <<>>)

\* what the file can give as "port" of a camera: nothing, null, true,
\* integers, strings, the floats 0.5, 80.7 and 70000.2 (by their whole part)
\* and Infinity
RawPorts ==
    {Missing, PyVal("none", 0, <<>>), PyVal("inf", 0, <<>>), PyVal("bool", 1, <<>>)}
    \cup { PyVal("int", n, <<>>) : n \in {-5, 0, 1, 8080, 65535, 65536} }
    \cup { PyVal("str", 0, c) :
              c \in { <<>>, <<"5", "5", "4">>, <<"-", "1">>, <<"a", "b">>,
                      <<"8", "0", ".", "5">>, <<"7", "0", "0", "0", "0">> } }
    \cup { PyVal("float", n, <<>>) : n \in {0, 80, 70000} }

\* what the file can give as settings.https
RawHttps ==
    {Missing, PyVal("none", 0, <<>>), PyVal("str", 0, <<"n", "o">>), PyVal("int", 0, <<>>)}
    \cup { PyVal("bool", n, <<>>) : n \in {0, 1} }
RawCameraLists == UNION { [1..n -> RawPorts] : n \in 1..MaxCams }

\* bool(x): None, False, 0 and "" are false
PyBool(v) ==
    CASE v.kind \in {"missing", "none"} -> FALSE      \* s.get("https", False)
      [] v.kind \in {"bool", "int", "float"} -> v.n # 0
      [] v.kind = "str" -> v.s # <<>>
      [] OTHER -> TRUE

Digits == <<"0", "1", "2", "3", "4", "5", "6", "7", "8", "9">>
IsDigit(c) == \E d \in 1..10 : Digits[d] = c
DigitValue(c) == (CHOOSE d \in 1..10 : Digits[d] = c) - 1

\* the value of a string of decimal digits
RECURSIVE Decimal(_)
Decimal(c) == IF c = <<>> THEN 0 ELSE 10 * Decimal(SubSeq(c, 1, Len(c) - 1)) + DigitValue(c[Len(c)])

\* int(str): an optional sign and at least one digit, anything else is a
\* ValueError
ParseInt(c) ==
    LET signed == c # <<>> /\ c[1] \in {"-", "+"}
        body == IF signed THEN Tail(c) ELSE c
    IN IF body # <<>> /\ \A k \in 1..Len(body) : IsDigit(body[k])
       THEN [err |-> "none", n |-> IF signed /\ c[1] = "-" THEN 0 - Decimal(body) ELSE Decimal(body)]
       ELSE [err |-> "ValueError", n |-> 0]

\* int(x)
PyInt(v) ==
    CASE v.kind \in {"int", "bool", "float"} -> [err |-> "none", n |-> v.n]
      [] v.kind = "str" -> ParseInt(v.s)
      [] v.kind = "inf" -> [err |-> "OverflowError", n |-> 0]
      [] OTHER -> [err |-> "TypeError", n |-> 0]          \* None

\* default_port = 443 if s["https"] else 80
DefaultPort(https) == IF https THEN HTTPS_PORT ELSE HTTP_PORT

\* max(1, min(65535, port))
Clamp_NoFloor(port) == IF port > PORT_MAX THEN PORT_MAX ELSE port
Clamp(port) ==
    LET capped == IF port > PORT_MAX THEN PORT_MAX ELSE port
    IN IF capped < PORT_MIN THEN PORT_MIN ELSE capped

\* try: cam["port"] = int(cam.get("port", default_port))
\* except (TypeError, ValueError): cam["port"] = default_port
\* cam["port"] = max(1, min(65535, cam["port"]))
NormalizePort(raw, default_port) ==
    LET got == IF raw.kind = "missing" THEN [err |-> "none", n |-> default_port]
               ELSE PyInt(raw)
    IN CASE got.err = "none" -> [err |-> "none", n |-> Clamp(got.n)]
         [] got.err \in {"TypeError", "ValueError"} -> [err |-> "none", n |-> Clamp(default_port)]
         [] OTHER -> got

InitConfig ==
    /\ fetcher \in Fetchers
    /\ cameras = <<>> /\ interval = DEFAULT_INTERVAL
    /\ PipelineOff /\ FetchIdle /\ PlayerIdle /\ CadenceIdle /\ WriterLogIdle
    /\ ScheduleIdle /\ StorageIdle /\ SeqIdle
    /\ lpc = "settings" /\ lhttps \in RawHttps /\ lraw \in RawCameraLists
    /\ lcams = <<>> /\ lret = "none"

\* s["https"] = bool(s.get("https", False))
L_Settings ==
    /\ lpc = "settings"
    /\ lhttps' = PyVal("bool", IF PyBool(lhttps) THEN 1 ELSE 0, <<>>)
    /\ lpc' = "cameras"
    /\ UNCHANGED <<lraw, lcams, lret>>
    /\ UNCHANGED <<configVars, clock, mainVars, sharedVars, workerVars, writerVars,
                   fetchVars, cadenceVars, playerVars, writerLogVars, scheduleVars,
                   storageVars, seqVars>>

\* one pass of: for cam in cfg.get("cameras", [])
L_Camera ==
    /\ lpc = "cameras" /\ Len(lcams) < Len(lraw)
    /\ LET port == NormalizePort(lraw[Len(lcams) + 1], DefaultPort(lhttps.n = 1)) IN
         IF port.err = "none"
         THEN /\ lcams' = Append(lcams, port.n)
              /\ UNCHANGED <<lpc, lret>>
         ELSE /\ lpc' = "done" /\ lret' = "raised"     \* nothing catches it
              /\ UNCHANGED lcams
    /\ UNCHANGED <<lhttps, lraw>>
    /\ UNCHANGED <<configVars, clock, mainVars, sharedVars, workerVars, writerVars,
                   fetchVars, cadenceVars, playerVars, writerLogVars, scheduleVars,
                   storageVars, seqVars>>

\* return cfg
L_Return ==
    /\ lpc = "cameras" /\ Len(lcams) = Len(lraw)
    /\ lpc' = "done" /\ lret' = "returned"
    /\ UNCHANGED <<lhttps, lraw, lcams>>
    /\ UNCHANGED <<configVars, clock, mainVars, sharedVars, workerVars, writerVars,
                   fetchVars, cadenceVars, playerVars, writerLogVars, scheduleVars,
                   storageVars, seqVars>>

NextConfig == L_Settings \/ L_Camera \/ L_Return

SpecConfig == InitConfig /\ [][NextConfig]_vars

(***************************************************************************)
(* Properties                                                              *)
(***************************************************************************)
\* the writer thread has opened its storage handle and is no longer running:
\* it returned, or the process ended under it
WriterGone == dpc = "closed" \/ (mpc = "exited" /\ dpc = "loop")

\* C1: if no producer enqueues after the shutdown signal, then once the writer
\* is gone every event that was in the queue has been dequeued, every sighting
\* written and the pending last_seen batch flushed: nothing is lost.
C1_DrainedOnShutdown ==
    (stop_event /\ ~putAfterStop /\ WriterGone) =>
        (dbq = <<>> /\ batch_last = <<>> /\ upserted + flushed = enqueued)

\* C2: under every interleaving, once the writer has closed its storage handle
\* every event a poller enqueued has been dequeued and handed to storage.
C2_NoEventAfterClose ==
    dpc = "closed" => (dbq = <<>> /\ upserted + flushed = enqueued)

\* C3: no poller's tick is cut short: when the process has ended, no
\* camera_worker is in the middle of a tick.
C3_TickNeverAborted ==
    mpc = "exited" => \A i \in Workers : wpc[i] \notin InTick

\* C4: a camera_worker that is waiting out its interval when the shutdown
\* signal is set leaves the wait by exiting; it does not start another tick.
C4_StopEndsWait ==
    [][\A i \in Workers :
          (wpc[i] = "wait" /\ stop_event) => wpc'[i] \in {"wait", "exited"}]_vars

C4_Witness ==
    \E i \in Workers : wpc[i] = "wait" /\ stop_event /\ ProcessAlive

\* C5: at most one tick is in progress for any one camera (ip), for every
\* camera list the configuration can supply.
C5_OneTickPerCamera ==
    \A i, j \in 1..Len(cameras) :
        (i # j /\ cameras[i] = cameras[j]) =>
            ~(wpc[i] \in InTick /\ wpc[j] \in InTick)

\* C6: after a tick of duration T with interval I the poller waits exactly
\* max(0, I - T): I - T when I > T, zero when T >= I, never a negative time,
\* and the next tick does not start before that wait is over.
C6_WaitIsRemainder ==
    /\ cpc = "wait" =>
         /\ cleft >= 0
         /\ cleft = (IF interval > celapsed THEN interval - celapsed ELSE 0)
         /\ cdeadline = ct0 + celapsed + cleft
    /\ cpc = "tick" => ct0 >= cdeadline

C6_Witness ==
    cpc = "tick" /\ ct0 > 0 /\ celapsed > 0 /\ cleft > 0 /\ ct0 = cdeadline

\* C7: a failed tick never stops a poller: a camera_worker thread ends only
\* after the shutdown signal (stated for the fetch_camera_image whose
\* signature fits the call in camera_worker).
C7_PollerEndsOnlyOnShutdown ==
    fetcher = "vlc_fetcher" => \A i \in Workers : wpc[i] \in Ended => stop_event

\* C8: every dbq.put is made by a tick that got an image in which at least one
\* face is not UNKNOWN; a tick without image, or with only UNKNOWN faces,
\* enqueues nothing.
C8_PutOnlyForKnown ==
    [][Len(dbq') > Len(dbq) =>
          \E i \in Workers :
              /\ wts[i] = dbq'[Len(dbq')].ts
              /\ wimg[i] = "img"
              /\ \E k \in DOMAIN wres[i] : wres[i][k].name # "UNKNOWN"]_vars

C8_Witness ==
    \E i \in Workers : wpc[i] = "wait" /\ enqueued = 0

\* C9: every acquisition function returns a pair (image-or-none, message) for
\* every outcome and lets no exception escape.
C9_NeverRaises == fret.raised = FALSE

\* C10: the protocol selector maps ports 80 and 443 to the HTTP snapshot
\* strategy and port 554 to the RTSP strategy.
C10_SelectorMapping ==
    fpc # "call" =>
        /\ fport \in {80, 443} => fstrategy = "http"
        /\ fport = 554 => fstrategy = "rtsp"

\* the call took the HTTP branch / the RTSP branch and has returned
HttpDone == fpc = "done" /\ fstrategy = "http"
RtspFailed == fpc = "done" /\ fstrategy = "rtsp" /\ fret.img = "none"

\* the diagnostics a returned RTSP message holds: f"{ip}:{port}: {last_err}"
DiagnosticsIn(msg) == <<msg.kind>>

\* C11: for every port outside {80, 443, 554} fetch_camera_image returns
\* (none, unsupported-port message) at once: no HTTP request is issued and no
\* player is created.
C11_UnsupportedPortNoIO ==
    fport \notin {80, 443, 554} =>
        /\ fio = 0
        /\ fpc = "done" => fret = Returned("none", Msg("unsupported_port", fport))

\* C12: the HTTP snapshot client returns an image if and only if the status is
\* 200 and the body is non-empty and decodable; a transport failure, an empty
\* body and an undecodable body each give (none, message naming the failure).
C12_HttpImageIff ==
    HttpDone =>
        /\ ~fret.raised
        /\ fret.img = "img" <=>
             (fenv.transport = "ok" /\ fenv.status = 200 /\ fenv.body = "jpeg")
        /\ fenv.transport = "fail" =>
             fret = Returned("none", Msg("http_request_failed", 0))
        /\ (fenv.transport = "ok" /\ fenv.status = 200 /\ fenv.body = "empty") =>
             /\ fret.img = "none"
             /\ fret.msg.kind \in {"empty_response", "decode_failed"}
        /\ (fenv.transport = "ok" /\ fenv.status = 200 /\ fenv.body = "garbage") =>
             fret = Returned("none", Msg("decode_failed", 0))

\* C13 as stated: for every status s other than 200 the client returns none
\* with a message that holds s and, of the response body, at most its first
\* 200 characters.
C13_StatusAndFirst200OfBody ==
    (HttpDone /\ fenv.transport = "ok" /\ fenv.status # 200) =>
        /\ fret = Returned("none", Msg("http_status", fenv.status))
        /\ Len(ftext.quoted) <= BODY_LIMIT
        /\ \A i \in 1..Len(ftext.quoted) :
             \E j \in 1..BODY_LIMIT :
                 /\ j <= Len(ResponseText(fenv.text))
                 /\ ResponseText(fenv.text)[j] = ftext.quoted[i]

\* C13 amended: for every status s other than 200 (204 and 404 included) the
\* client returns none with a message that holds s and at most the first 200
\* characters of the response body taken without its leading and trailing
\* whitespace: the whole of it when it has at most 200 characters, otherwise
\* its first 200 followed by "...".
C13_StatusAndFirst200OfStrippedBody ==
    (HttpDone /\ fenv.transport = "ok" /\ fenv.status # 200) =>
        /\ fret = Returned("none", Msg("http_status", fenv.status))
        /\ Len(ftext.quoted) <= BODY_LIMIT
        /\ \A i \in 1..Len(ftext.quoted) :
             ftext.quoted[i] = ResponseText(fenv.text)[fenv.text.lead + i]
        /\ Len(ftext.quoted) = (IF fenv.text.len > BODY_LIMIT THEN BODY_LIMIT
                                ELSE fenv.text.len)
        /\ ftext.ellipsis <=> fenv.text.len > BODY_LIMIT

C13_Witness ==
    /\ HttpDone /\ fenv.transport = "ok" /\ fenv.status = 204
    /\ fenv.text.lead = 1 /\ fenv.text.len = BODY_LIMIT + 1
    /\ Len(ftext.quoted) = BODY_LIMIT /\ ftext.ellipsis

\* C14: the HTTP client requests scheme://ip:port/path where the scheme depends
\* on the port alone, https for 443 and http for every other port, and the
\* port of the URL is the camera's configured port.
C14_SchemeFromPort ==
    furl # NoUrl =>
        /\ furl.port = fport
        /\ furl.scheme = (IF fport = 443 THEN "https" ELSE "http")

\* C15: the first RTSP attempt that yields a decodable image ends the call:
\* its image is returned and no later attempt is made (no further player).
C15_FirstSuccessEndsCall ==
    \A i \in 1..Len(fhist) :
        fhist[i].diag = "ok" =>
            /\ i = Len(fhist)
            /\ fio = i
            /\ fpc = "done"
            /\ fret = Returned("img", Msg("vlc_snapshot_ok", 0))

C15_Witness ==
    /\ fpc = "done" /\ Len(fhist) >= 2
    /\ fhist[Len(fhist)].diag = "ok"
    /\ Len(fhist) < RtspAttempts(fetcher, fenv.attempts)

\* C16: when every RTSP attempt of a call fails, the returned message holds
\* the diagnostic of every attempt made, in trial order.
C16_AllDiagnosticsInMessage ==
    RtspFailed =>
        DiagnosticsIn(fret.msg) = [i \in 1..Len(fhist) |-> fhist[i].diag]

\* C17: if the first backend fails on every transport and the pipe backend
\* succeeds on its first transport, the grabber returns the pipe backend's
\* image, and the diagnostics collected hold only the first backend's failures.
C17_SecondBackendSuccessReturned ==
    (fpc = "done" /\ fstrategy = "rtsp" /\ fenv.pipe_ok
       /\ \A i \in 1..Len(fhist) : fhist[i].backend = "libvlc" /\ fhist[i].diag # "ok")
    => fret.img = "img"

\* C18: the grabber tries the (backend, transport) pairs in the reference
\* order, library before pipe and TCP before UDP, a bounded number of times
\* each: attempts never go back to an earlier pair, and a call fails only
\* after every pair was tried.
C18_PairsInReferenceOrder ==
    LET ref == << [backend |-> "libvlc", transport |-> "tcp"],
                  [backend |-> "libvlc", transport |-> "udp"],
                  [backend |-> "ffmpeg", transport |-> "tcp"],
                  [backend |-> "ffmpeg", transport |-> "udp"] >>
        rank(a) == CHOOSE k \in 1..Len(ref) :
                      ref[k] = [backend |-> a.backend, transport |-> a.transport]
    IN  /\ \A i, j \in 1..Len(fhist) : i < j => rank(fhist[i]) <= rank(fhist[j])
        /\ RtspFailed => \A k \in 1..Len(ref) : \E i \in 1..Len(fhist) : rank(fhist[i]) = k

\* C19: in the embedded-player backend, once the polling loop has observed
\* Error or Ended, or the deadline has passed before a frame of non-zero width
\* and height was seen, the attempt ends in failure and issues no snapshot
\* request.
C19_TerminalFailureNoSnapshot ==
    pend \in {"error", "ended", "deadline"} =>
        /\ psnaps = 0
        /\ ppc \in {"teardown", "done"}
        /\ ~pret.ok

C19_Witness ==
    ppc = "done" /\ pend = "deadline" /\ pst = "Playing" /\ psnaps = 0 /\ ~pret.ok

\* C20: for every sequence of player states the polling loop ends, and it ends
\* only on Playing with a frame, Error, Ended or the deadline: a Playing
\* observation without a frame is waited out, like Opening and Buffering.
C20_PollingEndsOnTerminalOnly ==
    pend \in {"", "frame", "error", "ended", "deadline"}

\* C21: the embedded-player backend makes at most SNAPSHOT_TRIES (6) snapshot
\* requests; the pause before each request is strictly longer than the pause
\* before the previous one; the first request that returns 0 and leaves a
\* non-empty file is the last request and the call reports success; a call that
\* made requests of which none succeeded reports failure.
C21_BoundedIncreasingSnapshots ==
    /\ psnaps = Len(psnaplog)
    /\ Len(psnaplog) <= SNAPSHOT_TRIES
    /\ \A i \in 1..Len(psnaplog) : \A j \in 1..Len(psnaplog) :
          i < j => psnaplog[i].pause < psnaplog[j].pause
    /\ \A i \in 1..Len(psnaplog) :
          SnapshotOk(psnaplog[i].rc, psnaplog[i].size) =>
              /\ i = Len(psnaplog)
              /\ ppc \in {"teardown", "done"}
              /\ pret.ok
    /\ pret.ok =>
          /\ psnaplog # <<>>
          /\ SnapshotOk(psnaplog[Len(psnaplog)].rc, psnaplog[Len(psnaplog)].size)
    /\ (ppc = "done" /\ psnaplog # <<>>
          /\ \A i \in 1..Len(psnaplog) : ~SnapshotOk(psnaplog[i].rc, psnaplog[i].size))
       => ~pret.ok

\* the sixth request succeeded after five that did not
C21_Witness ==
    /\ ppc = "done" /\ fetcher = "camera_fetcher"
    /\ Len(psnaplog) = SNAPSHOT_TRIES /\ pret.ok
    /\ psnaplog[2].pause > psnaplog[1].pause

\* C22: every call of the embedded-player attempt that created a player has
\* stopped and torn down that player when it is over, whatever the exit path,
\* and the player belongs to an instance the call itself created.
C22_PlayerAlwaysTornDown ==
    (ppc = "done" /\ pcreated > 0) => (pstops = pcreated /\ pinstances = pcreated)

\* the rows of the calls of one storage function, in call order and, inside a
\* call, in argument order
RECURSIVE RowsOf(_, _)
RowsOf(log, op) ==
    IF log = <<>> THEN <<>>
    ELSE (IF Head(log).op = op THEN Head(log).rows ELSE <<>>) \o RowsOf(Tail(log), op)

IsLastSeen(ev) == ev.typ = "last_seen"
IsSighting(ev) == ev.typ = "sighting_upsert"

\* C24: the pending last_seen batch never holds more than BATCH_SIZE (50) rows,
\* db_update_last_seen is never called with an empty batch, and a loop pass of
\* the writer that leaves rows pending leaves fewer than BATCH_SIZE of them and
\* less than FLUSH_EVERY (1.0 s) after the previous flush: the batch is flushed
\* in the pass in which either threshold is reached.
C24_FlushWhenDue ==
    [][ /\ Len(batch_last') <= BATCH_SIZE
        /\ \A i \in 1..Len(dlog') :
              dlog'[i].op = "db_update_last_seen" => dlog'[i].rows # <<>>
        /\ (dpc' = "loop" /\ (dgot' # dgot \/ dlog' # dlog) /\ batch_last' # <<>>)
              => /\ Len(batch_last') < BATCH_SIZE
                 /\ dnow' - dlast_flush' < FLUSH_EVERY ]_vars

\* one flush was forced by the size of the batch, another by the interval
C24_Witness ==
    /\ dpc = "loop"
    /\ \E i \in 1..Len(dlog) : \E j \in 1..Len(dlog) :
          /\ dlog[i].op = "db_update_last_seen" /\ Len(dlog[i].rows) = BATCH_SIZE
          /\ dlog[j].op = "db_update_last_seen" /\ Len(dlog[j].rows) < BATCH_SIZE

\* C25: the loop pass that dequeues a sighting_upsert event calls
\* db_upsert_sighting_bytes for that event before the pass is over (so before
\* the next event is dequeued), and the batch never holds such an event.
C25_SightingWrittenAtOnce ==
    [][ /\ \A i \in 1..Len(batch_last') : IsLastSeen(batch_last'[i])
        /\ (dgot' # dgot /\ IsSighting(dgot'[Len(dgot')]))
              => /\ Len(dlog') > Len(dlog)
                 /\ dlog'[Len(dlog) + 1].op = "db_upsert_sighting_bytes"
                 /\ dlog'[Len(dlog) + 1].rows = <<dgot'[Len(dgot')]>> ]_vars

\* a sighting was written while last_seen rows were still pending
C25_Witness ==
    /\ batch_last # <<>>
    /\ \E i \in 1..Len(dlog) : dlog[i].op = "db_upsert_sighting_bytes"

\* C26: the writer dequeues the events of one camera in the order the camera
\* put them, and hands them to storage in the order it dequeued them: the
\* sightings written are the sighting events dequeued, in that order, and the
\* last_seen rows flushed (batch after batch, row after row) followed by the
\* rows still pending are the last_seen events dequeued, in that order.
C26_ArrivalOrderKept ==
    /\ \A i \in 1..Len(dgot) : \A j \in 1..Len(dgot) :
          (i < j /\ dgot[i].cam = dgot[j].cam) => dgot[i].ts < dgot[j].ts
    /\ RowsOf(dlog, "db_upsert_sighting_bytes") = SelectSeq(dgot, IsSighting)
    /\ RowsOf(dlog, "db_update_last_seen") \o batch_last = SelectSeq(dgot, IsLastSeen)

\* one batch carried rows of two cameras
C26_Witness ==
    \E i \in 1..Len(dlog) :
       /\ dlog[i].op = "db_update_last_seen" /\ Len(dlog[i].rows) = 2
       /\ dlog[i].rows[1].cam # dlog[i].rows[2].cam

\* C27: in concurrent mode the storage handle is opened, written to and closed
\* by db_writer steps only: no step in which a camera_worker moves or an event
\* is put changes what storage has received or the state of the handle.
C27_OnlyWriterTouchesStorage ==
    [][ (upserted' # upserted \/ flushed' # flushed \/ (dpc' # dpc /\ dpc # "idle"))
          => /\ workerVars' = workerVars
             /\ enqueued' = enqueued
             /\ mainVars' = mainVars ]_vars

\* events of the workers have reached storage through the writer, which closed
C27_Witness ==
    /\ dpc = "closed" /\ upserted > 0 /\ flushed > 0
    /\ enqueued = upserted + flushed

\* time between the starts of two consecutive ticks of a poller whose tick
\* lasts T
OwnPeriod(c) == sdur[c] + SleepLeft(Tenths(interval), sdur[c])

\* C28: under concurrent scheduling the tick starts of a camera follow its own
\* cadence whatever the other camera does, also while the other camera stays
\* inside a tick for ever; under sequential scheduling a camera is polled only
\* after the camera before it in the cycle has finished, so a slow camera
\* delays the ones after it.
C28_SlowCameraDelaysOnlySequential ==
    /\ \A c \in Workers : \A k \in 1..Len(kstart[c]) :
          kstart[c][k] = (k - 1) * OwnPeriod(c)
    /\ \A c \in Workers : \A d \in Workers :
          (c # d /\ kpc[c] = "tick" /\ kpc[d] = "start" /\ Len(kstart[d]) < MaxCycles)
             => ENABLED K_Begin(d)
    /\ \A k \in 1..Len(qstart[2]) :
          /\ Len(qstart[1]) >= k
          /\ qstart[2][k] >= qstart[1][k] + sdur[1]

\* camera 1 is still in its first, slow tick; camera 2 has started every tick
\* of the run under concurrent scheduling and, under sequential scheduling,
\* started its first tick only after camera 1's had ended
C28_Witness ==
    /\ sdur[1] > 0
    /\ kpc[1] = "tick" /\ Len(kstart[1]) = 1
    /\ Len(kstart[2]) = MaxCycles
    /\ qstart[2] # <<>> /\ qstart[2][1] > sdur[1]

\* C29: in concurrent mode each poller passes only the session it created
\* itself, and no session is passed by two pollers; in sequential mode all
\* cameras are polled with the one session of the loop, one camera at a time:
\* a camera's tick starts only after the previous camera's tick has ended.
C29_SessionPerPoller ==
    /\ \A c \in Workers : kused[c] \subseteq {ksess[c]}
    /\ \A c \in Workers : \A d \in Workers : c # d => kused[c] \cap kused[d] = {}
    /\ \A c \in Workers : qused[c] \subseteq {qsess}
    /\ \A k \in 1..Len(qstart[2]) : qstart[2][k] >= qstart[1][k] + sdur[1]
    /\ \A k \in 2..Len(qstart[1]) : qstart[1][k] >= qstart[2][k - 1] + sdur[2]

\* both cameras have been polled under both schedulings
C29_Witness ==
    /\ \A c \in Workers : kused[c] # {} /\ qused[c] # {}
    /\ kused[1] # kused[2] /\ qused[1] = qused[2]

\* C30: for the same tick durations, the time between the starts of two
\* consecutive ticks of a camera is the same under both schedulings.
C30_SamePeriodInBothModes ==
    \A c \in Workers : \A k \in 1..(MaxCycles - 1) :
       (k + 1 <= Len(kstart[c]) /\ k + 1 <= Len(qstart[c]))
          => kstart[c][k + 1] - kstart[c][k] = qstart[c][k + 1] - qstart[c][k]

\* C31: a startup-time configuration error is fatal: once the writer has
\* failed to open its storage handle, or when no camera is configured, no
\* poller starts a tick.
C31_StartupErrorIsFatal ==
    [][ (dpc = "crashed" \/ cameras = <<>>)
          => \A i \in Workers : (wpc'[i] = "fetch" => wpc[i] = "fetch") ]_vars

\* C37: one RTSP call of camera_fetcher makes at least one and at most
\* max(1, attempts) player attempts: exactly max(1, attempts) when all of them
\* fail, exactly k when the k-th is the first that succeeds; an attempt that
\* raised counts as failed and is followed by the next attempt while attempts
\* remain.
C37_AttemptCount ==
    (fetcher = "camera_fetcher" /\ fstrategy = "rtsp") =>
       LET n == IF fenv.attempts >= 1 THEN fenv.attempts ELSE 1 IN
         /\ Len(fhist) <= n
         /\ fio = Len(fhist)
         /\ \A k \in 1..Len(fhist) :
               fhist[k].diag = "ok" => (k = Len(fhist) /\ fpc = "done")
         /\ fpc = "done" =>
               /\ Len(fhist) >= 1
               /\ (\A k \in 1..Len(fhist) : fhist[k].diag # "ok") => Len(fhist) = n
         /\ \A k \in 1..Len(fhist) :
               (fhist[k].diag = "exception" /\ k < n) => (Len(fhist) > k \/ fpc = "rtsp")

\* two attempts were configured: the first raised, the second was made and
\* failed, and the call was over
C37_Witness ==
    /\ fetcher = "camera_fetcher" /\ fpc = "done" /\ fenv.attempts = 2
    /\ Len(fhist) = 2 /\ fhist[1].diag = "exception" /\ fhist[2].diag = "not_ok"

\* C35: a poller that has an event to put can always put it, whatever the
\* length of the queue and whether the writer is slow, has failed or has ended;
\* a writer in its loop is never stuck on an empty queue: its bounded get
\* returns and the pass goes on to the flush test and back to the loop test,
\* where a set shutdown signal ends the loop.
C35_PutNeverBlocks ==
    /\ \A i \in Workers :
          (ProcessAlive /\ wpc[i] = "put_last") => ENABLED W_PutLast(i)
    /\ \A i \in Workers :
          (ProcessAlive /\ wpc[i] = "put_sight") => ENABLED W_PutSight(i)
    /\ (ProcessAlive /\ dpc = "loop" /\ dbq = <<>> /\ ~stop_event) => ENABLED D_Iter
    /\ (ProcessAlive /\ dpc = "loop" /\ dbq = <<>> /\ stop_event) => ENABLED D_Final

\* a poller is about to put an event on a queue that already holds one, the
\* writer having died in db_connect
C35_Witness ==
    \E i \in Workers : wpc[i] = "put_sight" /\ dpc = "crashed" /\ Len(dbq) >= 1

\* C38: main sets the shutdown signal when it leaves its wait loop, by a
\* keyboard interrupt or because no poller thread is alive, and at no other
\* step; with an empty camera list the loop can be left at once, and the writer,
\* once in its loop, can then end.
C38_StopSetOnLeavingWaitLoop ==
    [][ /\ (stop_event' # stop_event) => (mpc = "waitloop" /\ mpc' = "join")
        /\ (mpc = "waitloop" /\ mpc' # "waitloop") => stop_event'
        /\ (cameras = <<>> /\ mpc = "waitloop") => ENABLED M_LoopExit
        /\ (cameras = <<>> /\ stop_event /\ dpc = "loop" /\ ProcessAlive)
              => ENABLED D_Final ]_vars

\* no camera: the signal was set and the writer closed its handle
C38_Witness ==
    cameras = <<>> /\ stop_event /\ dpc = "closed"

\* C34: the writer's handle is closed in one step only, taken from the loop
\* when the loop test has failed; that step makes the final flush of the
\* pending last_seen batch first, and skips it only when the batch is empty;
\* once the handle is closed it stays closed and no storage call is made.
C34_CloseOnceAfterFinalFlush ==
    [][ /\ (dpc' = "closed" /\ dpc # "closed")
              => /\ dpc = "loop" /\ ~WriterLoopCond(stop_event, dbq)
                 /\ batch_last # <<>>
                       => /\ Len(dlog') = Len(dlog) + 1
                          /\ dlog'[Len(dlog')].op = "db_update_last_seen"
                          /\ dlog'[Len(dlog')].rows = batch_last
                 /\ batch_last = <<>> => dlog' = dlog
        /\ dpc = "closed" => (dpc' = "closed" /\ dlog' = dlog) ]_vars

\* the handle is closed and the last storage call was the final flush of a
\* batch that the loop had left pending
C34_Witness ==
    /\ dpc = "closed" /\ Len(dlog) >= 2
    /\ dlog[Len(dlog)].op = "db_update_last_seen"
    /\ Len(dlog[Len(dlog)].rows) < BATCH_SIZE

\* C36: a storage call that raises, for a sighting or for a flush of the
\* last_seen batch, does not end the writer: the pass in which it raised
\* leaves the writer in its loop (or, for the final flush, at the close of the
\* handle), a flush that raised leaves the pending batch empty, and the writer
\* can always take its next pass or its exit.
C36_StorageErrorNotFatal ==
    [][ /\ (Len(dlog') > Len(dlog) /\ \E i \in Len(dlog) + 1..Len(dlog') : ~dlog'[i].ok)
              => /\ dpc' = (IF WriterLoopCond(stop_event, dbq) THEN "loop" ELSE "closed")
                 /\ Len(dgot') >= Len(dgot)
        /\ (Len(dlog') > Len(dlog) /\ dlog'[Len(dlog')].op = "db_update_last_seen"
               /\ ~dlog'[Len(dlog')].ok)
              => batch_last' = <<>>
        /\ dpc # "crashed" /\ dpc' # "crashed"
        /\ dpc = "loop" => ENABLED (DW_Iter \/ DW_Final) ]_vars

\* a flush of the batch raised, and the writer then dequeued and wrote a
\* later sighting
C36_Witness ==
    /\ dpc = "loop" /\ batch_last = <<>>
    /\ \E j \in 1..Len(dlog) : \E k \in 1..Len(dlog) :
          /\ j < k
          /\ dlog[j].op = "db_update_last_seen" /\ ~dlog[j].ok
          /\ dlog[k].op = "db_upsert_sighting_bytes"

\* the events worker i puts in one step of a tick: leaving put_last it has
\* appended one last_seen event for a known face of highest score; put_sight is
\* entered from put_last only; each step at put_sight appends one
\* sighting_upsert for the next known face; every event carries the camera's
\* alias and the tick's timestamp; a step that is not i's appends nothing for i
TickPuts(i) ==
    LET known == SelectSeq(wres[i], IsKnown) IN
      /\ (wpc[i] = "put_last" /\ wpc'[i] # "put_last")
            => \E b \in 1..Len(known) :
                  /\ \A j \in 1..Len(known) : known[j].score <= known[b].score
                  /\ dbq' = Append(dbq, LastSeen(known[b].name, cam_name(i), wts[i]))
      /\ (wpc'[i] = "put_last" /\ wpc[i] # "put_last")
            => (wpc[i] = "fetch" /\ wts'[i] = wts[i] /\ SelectSeq(wres'[i], IsKnown) # <<>>)
      /\ (wpc'[i] = "put_sight" /\ wpc[i] # "put_sight")
            => (wpc[i] = "put_last" /\ wk'[i] = 1 /\ wts'[i] = wts[i] /\ wres'[i] = wres[i])
      /\ (wpc[i] = "put_sight" /\ (wpc'[i] # "put_sight" \/ wk'[i] # wk[i]))
            => /\ dbq' = Append(dbq, SightingUpsert(known[wk[i]].name, cam_name(i), wts[i]))
               /\ wpc'[i] = "put_sight"
                     => (wk'[i] = wk[i] + 1 /\ wts'[i] = wts[i] /\ wres'[i] = wres[i])
      /\ (wpc'[i] = wpc[i] /\ wk'[i] = wk[i] /\ Len(dbq') > Len(dbq))
            => \E j \in Workers \ {i} : wpc'[j] # wpc[j] \/ wk'[j] # wk[j]

\* the names of the known faces of worker i's tick
KnownNames(i) == { wres[i][k].name : k \in { k \in 1..Len(wres[i]) : IsKnown(wres[i][k]) } }

\* C33 as stated: a tick with a known face puts exactly one last_seen event,
\* for the known face of highest score, before any sighting_upsert, and when
\* the JPEG is encoded ends after exactly one sighting_upsert per known
\* identity; all carry the camera's alias and the tick's timestamp.
C33_OnePerIdentity ==
    [][ \A i \in Workers :
          /\ TickPuts(i)
          /\ (wpc[i] = "put_sight" /\ wpc'[i] = "wait")
                => wk[i] = Cardinality(KnownNames(i)) ]_vars

\* C33, amended: ... exactly one sighting_upsert per known face of the
\* recognizer's result (two faces given the same name give two events for that
\* identity).
C33_OnePerKnownFace ==
    [][ \A i \in Workers :
          /\ TickPuts(i)
          /\ (wpc[i] = "put_sight" /\ wpc'[i] = "wait")
                => wk[i] = Len(SelectSeq(wres[i], IsKnown)) ]_vars

\* a tick whose two known faces carry one name has put the first
\* sighting_upsert of that identity and is about to put the second
C33_Witness ==
    \E i \in Workers :
       /\ wpc[i] = "put_sight" /\ wk[i] = 2
       /\ Cardinality(KnownNames(i)) = 1
       /\ dbq # <<>>
       /\ dbq[Len(dbq)] = SightingUpsert("ann", cam_name(i), wts[i])

\* C32: once the writer has closed after draining the queue, every event
\* enqueued having been written, the timestamp
\* stored in last_seen and in sightings for a name is the greatest timestamp
\* of the events enqueued for that name and table.
C32_NewestCaptureStored ==
    (dpc = "closed" /\ dbq = <<>> /\ enqueued = flushed + upserted) =>
       \A t \in {"last_seen", "sightings"} : \A n \in Names : db[t][n] = newest[t][n]

\* C40: when load_config has returned, the port of every camera is an integer
\* in 1..65535; where the file gave no port, or one that int() rejects with a
\* TypeError or ValueError, it is the default (443 when settings.https is
\* true, else 80); where the file gave a number, it is that number moved to
\* the nearest of 1 and 65535 when outside them.
C40_PortsNormalised ==
    lret = "returned" =>
       /\ Len(lcams) = Len(lraw)
       /\ \A k \in 1..Len(lraw) :
            LET raw == lraw[k]
                default == IF lhttps.n = 1 THEN 443 ELSE 80
                numeric == \/ raw.kind \in {"int", "float", "bool"}
                           \/ raw.kind = "str" /\ ParseInt(raw.s).err = "none"
                number == IF raw.kind = "str" THEN ParseInt(raw.s).n ELSE raw.n
            IN /\ lcams[k] \in 1..65535
               /\ ~numeric => lcams[k] = default
               /\ (numeric /\ number \in 1..65535) => lcams[k] = number
               /\ (numeric /\ number < 1) => lcams[k] = 1
               /\ (numeric /\ number > 65535) => lcams[k] = 65535

\* https on: a camera without port got 443 and a port of 65536 was lowered to
\* 65535
C40_Witness ==
    /\ lret = "returned" /\ lhttps.n = 1
    /\ \E i \in 1..Len(lraw) : lraw[i] = Missing /\ lcams[i] = 443
    /\ \E j \in 1..Len(lraw) : lraw[j].kind = "int" /\ lraw[j].n = 65536 /\ lcams[j] = 65535

\* the log of a cycle that has run to its write: for each camera in
\* configuration order its poll and then its pacing sleep, then the write
CycleLog(log, at) ==
    /\ at > 2 * Len(cameras)
    /\ \A c \in 1..Len(cameras) :
         /\ log[at - 2 * (Len(cameras) - c) - 2].op = "poll"
         /\ log[at - 2 * (Len(cameras) - c) - 2].cam = c
         /\ log[at - 2 * (Len(cameras) - c) - 1].op = "gap"
         /\ log[at - 2 * (Len(cameras) - c) - 1].cam = c

\* C39: in sequential mode a storage write comes at the end of a cycle, after
\* every camera was polled once in configuration order with the pacing sleep
\* after each, and carries the rows those polls collected; nothing is written
\* after the close; and when the handle has been closed, also by an interrupt
\* in the middle of a cycle, every row collected has been written.
C39_CycleRowsWritten ==
    /\ \A k \in 1..Len(rlog) :
          rlog[k].op = "write"
             => /\ CycleLog(rlog, k)
                /\ rlog[k].rows = RowsOf(SubSeq(rlog, k - 2 * Len(cameras), k - 1), "poll")
    /\ \A k \in 1..Len(rlog) : rlog[k].op = "close" => k = Len(rlog)
    /\ rpc = "closed" => RowsOf(rlog, "write") = RowsOf(rlog, "poll")
====
